---- MODULE Spec2Model ----
(***************************************************************************)
(* cim-workflow-graph: the WorkflowGraph wrapper of src/src/lib.rs, the    *)
(* CID-chained event store of tests/infrastructure/test_event_stream.rs    *)
(* and the command router of tests/infrastructure/test_message_routing.rs. *)
(*                                                                         *)
(* Each component has its own specification; the variables of the other    *)
(* components stay at their constructor values there.                      *)
(*   SpecValidate  WorkflowGraph::from_workflow(w) for any step map w,     *)
(*                 then validate()                                         *)
(*   Spec          WorkflowGraph::new, then add_step / start / complete /  *)
(*                 queries, with the aggregate's step lifecycle            *)
(*   SpecStore     MockWorkflowEventStore through its methods              *)
(*   SpecStoreClear the store, and its live log cleared as the snapshot    *)
(*                 test does                                               *)
(*   SpecStoreBreak the store's append and validate, and previous_cid      *)
(*                 fields overwritten as the broken-chain test does        *)
(*   SpecStoreRestore the store restored from older snapshots, with room   *)
(*                 for several of them                                     *)
(*   SpecStoreCollide the store called with events chosen so that the      *)
(*                 byte sums behind two addresses agree                    *)
(*   SpecRouter    WorkflowCommandRouter                                   *)
(*   SpecNats      MockNatsClient of test_nats_connection.rs, streams of   *)
(*                 every pattern                                           *)
(*   SpecNatsConsume the client with one stream and several consumers      *)
(***************************************************************************)
EXTENDS Integers, Sequences, FiniteSets, TLC

VARIABLES
    steps,            \* workflow.steps: StepId -> [dependencies, status]
    wfStatus,         \* workflow.status
    context_graph,    \* WorkflowGraph.context_graph
    gResult,          \* what the last WorkflowGraph call returned
    events,           \* MockWorkflowEventStore.events
    snapshots,        \* MockWorkflowEventStore.snapshots: Cid -> entries
    sResult,          \* what the last store call returned
    roundTrip,        \* history of a snapshot round trip: the snapshot taken,
                      \* the live log cleared, the restore and what it returned
    handlers,         \* WorkflowCommandRouter.handlers: tag -> handler
    fallback_handler, \* WorkflowCommandRouter.fallback_handler
    stats,            \* WorkflowCommandRouter.stats
    routing_times,    \* WorkflowCommandRouter.routing_times
    rResult,          \* what the last router call returned
    connected,        \* MockNatsClient.connected
    streams,          \* MockNatsClient.streams: name -> stream
    streamsIter,      \* the order in which the streams map iterates its keys
    published_messages, \* MockNatsClient.published_messages
    nResult           \* what the last client call returned

gvars == <<steps, wfStatus, context_graph, gResult>>
svars == <<events, snapshots, sResult, roundTrip>>
rvars == <<handlers, fallback_handler, stats, routing_times, rResult>>
nvars == <<connected, streams, streamsIter, published_messages, nResult>>
vars == <<gvars, svars, rvars, nvars>>

----------------------------------------------------------------------------
(* Bounds *)

NumSteps == 4      \* step ids of a supplied step map: 1..NumSteps
MaxDeps == 2       \* longest dependency list
MaxEdges == 4      \* dependency entries of a supplied step map, in total
MaxAdded == 2      \* add_step calls that succeed on one graph

----------------------------------------------------------------------------
(* Helpers *)

Range(f) == {f[i] : i \in DOMAIN f}

\* The sequences over S of length at most n without a repeated element.
RECURSIVE InjSeqs(_, _)
InjSeqs(S, n) ==
    IF n = 0 THEN {<<>>}
    ELSE LET shorter == InjSeqs(S, n - 1)
         IN shorter \cup {Append(p[1], p[2]) :
                             p \in {p \in shorter \X S : p[2] \notin Range(p[1])}}

\* The orders in which a HashMap with the key set S may be iterated.
Orders(S) == {q \in InjSeqs(S, Cardinality(S)) : Len(q) = Cardinality(S)}

NoResult == [op |-> "none"]

----------------------------------------------------------------------------
(* WorkflowGraph (src/src/lib.rs) *)

StepStatuses == {"Pending", "Ready", "InProgress", "Completed", "Failed", "Skipped"}

NewStep(deps) == [dependencies |-> deps, status |-> "Pending"]

\* has_circular_dependency() reporting a cycle for every step that has a
\* dependency
has_circular_dependency_any(stepMap, step_id, dependencies, stack) ==
    IF dependencies = <<>> THEN "false" ELSE "true"

\* has_circular_dependency(step_id, dependencies): "true", "false", or
\* "overflow" when the recursion never returns. `stack` holds the steps whose
\* dependency lists the enclosing calls are walking: the function is pure and
\* keeps no visited set, so a call on a step already in `stack` is the same
\* call nested in itself, and the recursion goes on until the thread's stack
\* is exhausted (the process aborts).
RECURSIVE has_circular_dependency(_, _, _, _)
has_circular_dependency(stepMap, step_id, dependencies, stack) ==
    IF dependencies = <<>> THEN "false"
    ELSE LET dep_id == Head(dependencies)
             below ==
                 IF dep_id \notin DOMAIN stepMap THEN "false"
                 ELSE IF dep_id \in stack THEN "overflow"
                 ELSE has_circular_dependency(stepMap, step_id,
                          stepMap[dep_id].dependencies, stack \cup {dep_id})
         IN IF dep_id = step_id THEN "true"
            ELSE IF below # "false" THEN below
            ELSE has_circular_dependency(stepMap, step_id, Tail(dependencies), stack)

\* validate()'s first loop, over the steps in the map's iteration order.
RECURSIVE CircularCheck(_, _)
CircularCheck(stepMap, order) ==
    IF order = <<>> THEN [kind |-> "Ok", step |-> 0, dep |-> 0]
    ELSE LET step_id == Head(order)
             r == has_circular_dependency(stepMap, step_id,
                      stepMap[step_id].dependencies, {})
         IN IF r = "true"
            THEN [kind |-> "CircularDependency", step |-> step_id, dep |-> 0]
            ELSE IF r = "overflow"
            THEN [kind |-> "StackOverflow", step |-> step_id, dep |-> 0]
            ELSE CircularCheck(stepMap, Tail(order))

\* The first dependency id of `deps` that is no key of the map, or 0.
RECURSIVE FirstMissing(_, _)
FirstMissing(stepMap, deps) ==
    IF deps = <<>> THEN 0
    ELSE IF Head(deps) \notin DOMAIN stepMap THEN Head(deps)
    ELSE FirstMissing(stepMap, Tail(deps))

\* validate()'s second loop.
RECURSIVE ExistenceCheck(_, _)
ExistenceCheck(stepMap, order) ==
    IF order = <<>> THEN [kind |-> "Ok", step |-> 0, dep |-> 0]
    ELSE LET m == FirstMissing(stepMap, stepMap[Head(order)].dependencies)
         IN IF m # 0
            THEN [kind |-> "InvalidDependency", step |-> Head(order), dep |-> m]
            ELSE ExistenceCheck(stepMap, Tail(order))

\* validate() without its second loop
validate_first_loop_only(stepMap, order) == CircularCheck(stepMap, order)

\* validate() on a map iterated in `order`.
validate(stepMap, order) ==
    LET c == CircularCheck(stepMap, order)
    IN IF c.kind # "Ok" THEN c ELSE ExistenceCheck(stepMap, order)


\* WorkflowContextGraph::from_workflow: a node per step plus Start and End,
\* an edge per (dependent, dependency) pair, Start -> every step without
\* dependencies, every step without dependents -> End.
from_workflow(stepMap) ==
    [nodes |-> {[kind |-> "Start"], [kind |-> "End"]} \cup
               {[kind |-> "Step", id |-> s, status |-> stepMap[s].status] :
                    s \in DOMAIN stepMap},
     edges |-> {[source |-> e[1], target |-> e[2], kind |-> "depends_on"] :
                    e \in {e \in (DOMAIN stepMap) \X (DOMAIN stepMap) :
                               e[2] \in Range(stepMap[e[1]].dependencies)}} \cup
               {[source |-> "Start", target |-> s, kind |-> "start"] :
                    s \in {s \in DOMAIN stepMap : stepMap[s].dependencies = <<>>}} \cup
               {[source |-> s, target |-> "End", kind |-> "end"] :
                    s \in {s \in DOMAIN stepMap :
                               \A t \in DOMAIN stepMap :
                                   s \notin Range(stepMap[t].dependencies)}}]

\* WorkflowContextGraph::statistics: the step nodes and the dependency edges
\* counted.
statistics(cg) ==
    [step_nodes |-> Cardinality({n \in cg.nodes : n.kind = "Step"}),
     dependency_edges |-> Cardinality({e \in cg.edges : e.kind = "depends_on"})]

\* refresh_context_graph() keeping the stored projection
refresh_context_graph_stale(stepMap) == context_graph

\* refresh_context_graph(): the projection derived anew from the workflow.
refresh_context_graph(stepMap) == from_workflow(stepMap)

\* Workflow::add_step of the aggregate: a draft workflow takes a step whose
\* dependencies are all steps of it, under a fresh id, and reports StepAdded.
DomainAddStep(stepMap, status, deps) ==
    IF status = "Draft" /\ \A d \in Range(deps) : d \in DOMAIN stepMap
    THEN LET id == Cardinality(DOMAIN stepMap) + 1
         IN [ok |-> TRUE, steps |-> stepMap @@ (id :> NewStep(deps)),
             events |-> <<[type |-> "StepAdded", step_id |-> id]>>]
    ELSE [ok |-> FALSE, steps |-> stepMap, events |-> <<>>]

\* Workflow::start of the aggregate: Draft -> Running.
DomainStart(status) ==
    IF status = "Draft" THEN [ok |-> TRUE, status |-> "Running"]
    ELSE [ok |-> FALSE, status |-> status]

\* Workflow::complete of the aggregate: Running -> Completed once every step
\* is completed.
DomainComplete(stepMap, status) ==
    IF status = "Running" /\ \A s \in DOMAIN stepMap : stepMap[s].status = "Completed"
    THEN [ok |-> TRUE, status |-> "Completed"]
    ELSE [ok |-> FALSE, status |-> status]

\* The statuses a step may move to from `st`.
NextStatuses(st) ==
    CASE st = "Pending" -> {"Ready"}
      [] st = "Ready" -> {"InProgress"}
      [] st = "InProgress" -> {"Completed", "Failed", "Skipped"}
      [] OTHER -> {}

\* Workflow::get_executable_steps of the aggregate.
DomainExecutableSteps(stepMap) ==
    {s \in DOMAIN stepMap :
        /\ stepMap[s].status \in {"Pending", "Ready"}
        /\ \A d \in Range(stepMap[s].dependencies) :
               d \in DOMAIN stepMap /\ stepMap[d].status = "Completed"}

\* get_executable_steps() returning the ids of all steps
get_executable_steps_unfiltered(stepMap) == DOMAIN stepMap

\* get_executable_steps(): the ids of the aggregate's executable steps.
get_executable_steps(stepMap) == {s : s \in DomainExecutableSteps(stepMap)}

\* A stack overflow aborts the process: nothing runs after it.
Alive == ~(gResult.op = "validate" /\ gResult.kind = "StackOverflow")

DepLists == InjSeqs(1..NumSteps, MaxDeps)

\* The step maps with steps 1..n whose dependency lists hold at most
\* `budget` entries in total, as sequences of dependency lists. Step ids are
\* opaque and the map is iterated in every order, so the steps are numbered
\* by falling length of their lists (no list longer than `cap` follows):
\* every step map is one of these up to the naming of its steps.
RECURSIVE StepMaps(_, _, _)
StepMaps(n, budget, cap) ==
    IF n = 0 THEN {<<>>}
    ELSE UNION {{<<d>> \o g : g \in StepMaps(n - 1, budget - Len(d), Len(d))} :
                   d \in {d \in DepLists : Len(d) <= budget /\ Len(d) <= cap}}

\* WorkflowGraph::new
GraphNew ==
    /\ steps = <<>>
    /\ wfStatus = "Draft"
    /\ context_graph = from_workflow(<<>>)
    /\ gResult = NoResult

\* WorkflowGraph::from_workflow on a workflow with any step map
GraphFromWorkflow ==
    /\ \E n \in 0..NumSteps : \E g \in StepMaps(n, MaxEdges, MaxDeps) :
           steps = [i \in 1..n |-> NewStep(g[i])]
    /\ wfStatus = "Draft"
    /\ context_graph = from_workflow(steps)
    /\ gResult = NoResult

\* add_step(.., dependencies, ..)
AddStep(deps) ==
    /\ Alive
    /\ LET d == DomainAddStep(steps, wfStatus, deps)
       IN IF ~d.ok
          THEN /\ gResult' = [op |-> "add_step", kind |-> "DomainError", step |-> 0]
               /\ UNCHANGED <<steps, context_graph>>
          ELSE /\ Cardinality(DOMAIN steps) < MaxAdded
               /\ steps' = d.steps
               /\ IF d.events # <<>> /\ Head(d.events).type = "StepAdded"
                  THEN /\ context_graph' = refresh_context_graph(steps')
                       /\ gResult' = [op |-> "add_step", kind |-> "Ok",
                                      step |-> Head(d.events).step_id]
                  ELSE /\ context_graph' = context_graph
                       /\ gResult' = [op |-> "add_step", kind |-> "InvalidOperation",
                                      step |-> 0]
    /\ UNCHANGED wfStatus
    /\ UNCHANGED <<svars, rvars, nvars>>

\* start(context)
Start ==
    /\ Alive
    /\ LET d == DomainStart(wfStatus)
       IN IF ~d.ok
          THEN /\ gResult' = [op |-> "start", kind |-> "DomainError"]
               /\ UNCHANGED <<wfStatus, context_graph>>
          ELSE /\ wfStatus' = d.status
               /\ context_graph' = refresh_context_graph(steps)
               /\ gResult' = [op |-> "start", kind |-> "Ok"]
    /\ UNCHANGED steps
    /\ UNCHANGED <<svars, rvars, nvars>>

\* complete()
Complete ==
    /\ Alive
    /\ LET d == DomainComplete(steps, wfStatus)
       IN IF ~d.ok
          THEN /\ gResult' = [op |-> "complete", kind |-> "DomainError"]
               /\ UNCHANGED <<wfStatus, context_graph>>
          ELSE /\ wfStatus' = d.status
               /\ context_graph' = refresh_context_graph(steps)
               /\ gResult' = [op |-> "complete", kind |-> "Ok"]
    /\ UNCHANGED steps
    /\ UNCHANGED <<svars, rvars, nvars>>

\* The aggregate moves a step of a running workflow to its next status.
StepLifecycle(s) ==
    /\ Alive
    /\ wfStatus = "Running"
    /\ \E st \in NextStatuses(steps[s].status) :
           steps' = [steps EXCEPT ![s].status = st]
    /\ gResult' = [op |-> "step_status", step |-> s]
    /\ UNCHANGED <<wfStatus, context_graph>>
    /\ UNCHANGED <<svars, rvars, nvars>>

\* get_executable_steps()
GetExecutableSteps ==
    /\ Alive
    /\ gResult' = [op |-> "get_executable_steps", ids |-> get_executable_steps(steps)]
    /\ UNCHANGED <<steps, wfStatus, context_graph>>
    /\ UNCHANGED <<svars, rvars, nvars>>

\* validate()
Validate ==
    /\ Alive
    /\ \E order \in Orders(DOMAIN steps) :
           gResult' = [op |-> "validate"] @@ validate(steps, order)
    /\ UNCHANGED <<steps, wfStatus, context_graph>>
    /\ UNCHANGED <<svars, rvars, nvars>>

----------------------------------------------------------------------------
(* MockWorkflowEventStore (src/tests/infrastructure/test_event_stream.rs) *)

MaxLog == 3        \* entries of the live log
MaxSnapshots == 1  \* keys of the snapshot store
MaxRestorePoints == 2  \* keys of the snapshot store where restores are studied

\* The UTF-8 bytes of the string literals the store formats.
Bytes(t) ==
    CASE t = "Qm" -> <<81, 109>>
      [] t = "None" -> <<78, 111, 110, 101>>
      [] t = "Some(" -> <<83, 111, 109, 101, 40>>
      [] t = "Cid(\"" -> <<67, 105, 100, 40, 34>>
      [] t = "\")" -> <<34, 41>>
      [] t = ")" -> <<41>>
      [] t = "\"" -> <<34>>
      [] t = ", " -> <<44, 32>>
      [] t = " { " -> <<32, 123, 32>>
      [] t = " }" -> <<32, 125>>
      [] t = "evt_" -> <<101, 118, 116, 95>>
      [] t = "ack_" -> <<97, 99, 107, 95>>
      [] t = "_" -> <<95>>
      [] t = "broken" -> <<98, 114, 111, 107, 101, 110>>
      [] t = "workflow_id: " -> <<119, 111, 114, 107, 102, 108, 111, 119, 95, 105, 100, 58, 32>>
      [] t = "name: " -> <<110, 97, 109, 101, 58, 32>>
      [] t = "description: " -> <<100, 101, 115, 99, 114, 105, 112, 116, 105, 111, 110, 58, 32>>
      [] t = "step_id: " -> <<115, 116, 101, 112, 95, 105, 100, 58, 32>>
      [] t = "step_type: " -> <<115, 116, 101, 112, 95, 116, 121, 112, 101, 58, 32>>
      [] t = "context: {}" -> <<99, 111, 110, 116, 101, 120, 116, 58, 32, 123, 125>>
      [] t = "result: " -> <<114, 101, 115, 117, 108, 116, 58, 32>>
      [] t = "status: " -> <<115, 116, 97, 116, 117, 115, 58, 32>>
      [] t = "timestamp: SystemTime { tv_sec: " -> <<116, 105, 109, 101, 115, 116, 97, 109, 112, 58, 32, 83, 121, 115, 116, 101, 109, 84, 105, 109, 101, 32, 123, 32, 116, 118, 95, 115, 101, 99, 58, 32>>
      [] t = ", tv_nsec: " -> <<44, 32, 116, 118, 95, 110, 115, 101, 99, 58, 32>>
      [] t = "ChainedWorkflowEvent { event_id: " -> <<67, 104, 97, 105, 110, 101, 100, 87, 111, 114, 107, 102, 108, 111, 119, 69, 118, 101, 110, 116, 32, 123, 32, 101, 118, 101, 110, 116, 95, 105, 100, 58, 32>>
      [] t = ", event: " -> <<44, 32, 101, 118, 101, 110, 116, 58, 32>>
      [] t = ", cid: " -> <<44, 32, 99, 105, 100, 58, 32>>
      [] t = ", previous_cid: " -> <<44, 32, 112, 114, 101, 118, 105, 111, 117, 115, 95, 99, 105, 100, 58, 32>>
      [] t = ", sequence: " -> <<44, 32, 115, 101, 113, 117, 101, 110, 99, 101, 58, 32>>
      [] t = "[" -> <<91>>
      [] t = "]" -> <<93>>
      [] t = "WorkflowCreated" -> <<87, 111, 114, 107, 102, 108, 111, 119, 67, 114, 101, 97, 116, 101, 100>>
      [] t = "StepAdded" -> <<83, 116, 101, 112, 65, 100, 100, 101, 100>>
      [] t = "WorkflowStarted" -> <<87, 111, 114, 107, 102, 108, 111, 119, 83, 116, 97, 114, 116, 101, 100>>
      [] t = "StepCompleted" -> <<83, 116, 101, 112, 67, 111, 109, 112, 108, 101, 116, 101, 100>>
      [] t = "WorkflowCompleted" -> <<87, 111, 114, 107, 102, 108, 111, 119, 67, 111, 109, 112, 108, 101, 116, 101, 100>>
      [] t = "ab" -> <<97, 98>>
      [] t = "ba" -> <<98, 97>>
      [] t = "s1" -> <<115, 49>>
      [] t = "n" -> <<110>>
      [] t = "p" -> <<112>>
      [] t = "onboarding" -> <<111, 110, 98, 111, 97, 114, 100, 105, 110, 103>>
      [] t = "d" -> <<100>>
      [] t = "Manual" -> <<77, 97, 110, 117, 97, 108>>
      [] t = "ok" -> <<111, 107>>
      [] t = "Completed" -> <<67, 111, 109, 112, 108, 101, 116, 101, 100>>

\* {} of an unsigned integer: its decimal digits.
RECURSIVE Dec(_)
Dec(n) == IF n < 10 THEN <<48 + n>> ELSE Dec(n \div 10) \o <<48 + (n % 10)>>

\* {:x} of an unsigned integer: its hexadecimal digits, in lower case.
RECURSIVE Hex(_)
Hex(n) ==
    LET digit(d) == IF d < 10 THEN 48 + d ELSE 87 + d
    IN IF n < 16 THEN <<digit(n)>> ELSE Hex(n \div 16) \o <<digit(n % 16)>>

\* data.iter().fold(0u64, |acc, &b| acc.wrapping_add(b as u64)) over
\* data[lo..hi]. Wrapping addition is associative, so the sum is taken by
\* halves; the sum of the bytes of any text formatted here stays far below
\* 2^64, where the addition would wrap.
RECURSIVE Fold(_, _, _)
Fold(data, lo, hi) ==
    IF lo > hi THEN 0
    ELSE IF lo = hi THEN data[lo]
    ELSE LET mid == (lo + hi) \div 2
         IN Fold(data, lo, mid) + Fold(data, mid + 1, hi)

\* Cid::new(data): the string "Qm" followed by the hexadecimal byte sum.
CidNew(data) == Bytes("Qm") \o Hex(Fold(data, 1, Len(data)))

None == [some |-> FALSE]
Some(c) == [some |-> TRUE, cid |-> c]

\* {:?} of a string without characters that Debug escapes.
DebugStr(t) == Bytes("\"") \o Bytes(t) \o Bytes("\"")

\* {:?} of a Cid and of an Option<Cid>
DebugCid(c) == Bytes("Cid(\"") \o c \o Bytes("\")")
DebugOptCid(o) ==
    IF o.some THEN Bytes("Some(") \o DebugCid(o.cid) \o Bytes(")") ELSE Bytes("None")

\* {:?} of a SystemTime
DebugTime(ts) ==
    Bytes("timestamp: SystemTime { tv_sec: ") \o Dec(ts.tv_sec)
        \o Bytes(", tv_nsec: ") \o Dec(ts.tv_nsec) \o Bytes(" }")

\* {:?} of a WorkflowDomainEvent (derived Debug)
DebugEvent(e) ==
    LET field(label, value) == Bytes(label) \o DebugStr(value) \o Bytes(", ")
        head == Bytes(e.variant) \o Bytes(" { ") \o field("workflow_id: ", e.workflow_id)
        body ==
            CASE e.variant = "WorkflowCreated" ->
                     field("name: ", e.name) \o field("description: ", e.description)
              [] e.variant = "StepAdded" ->
                     field("step_id: ", e.step_id) \o field("name: ", e.name)
                         \o field("step_type: ", e.step_type)
              [] e.variant = "WorkflowStarted" -> Bytes("context: {}") \o Bytes(", ")
              [] e.variant = "StepCompleted" ->
                     field("step_id: ", e.step_id) \o field("result: ", e.result)
              [] e.variant = "WorkflowCompleted" -> field("status: ", e.status)
    IN head \o body \o DebugTime(e.timestamp) \o Bytes(" }")

\* {:?} of a ChainedWorkflowEvent (derived Debug)
DebugChained(c) ==
    Bytes("ChainedWorkflowEvent { event_id: ") \o Bytes("\"") \o c.event_id \o Bytes("\"")
        \o Bytes(", event: ") \o DebugEvent(c.event)
        \o Bytes(", cid: ") \o DebugCid(c.cid)
        \o Bytes(", previous_cid: ") \o DebugOptCid(c.previous_cid)
        \o Bytes(", sequence: ") \o Dec(c.sequence) \o Bytes(" }")

\* {:?} of the Vec of entries
RECURSIVE DebugEntries(_, _)
DebugEntries(log, i) ==
    IF i > Len(log) THEN <<>>
    ELSE (IF i > 1 THEN Bytes(", ") ELSE <<>>) \o DebugChained(log[i])
             \o DebugEntries(log, i + 1)
DebugLog(log) == Bytes("[") \o DebugEntries(log, 1) \o Bytes("]")

\* The events appended: one per workflow, the two workflow ids holding the
\* same bytes in a different order.
WorkflowIds == {"ab", "ba"}
Payloads ==
    {[variant |-> "WorkflowCreated", workflow_id |-> w, name |-> "n",
      description |-> "d", timestamp |-> [tv_sec |-> 1, tv_nsec |-> 0]] :
         w \in WorkflowIds}

\* Two events of one workflow whose names are such that the second, appended
\* to a log that ends with the first, gets the address the first has at the
\* head of a log
CollidingPayloads ==
    {[variant |-> "WorkflowCreated", workflow_id |-> "ab", name |-> n,
      description |-> "d", timestamp |-> [tv_sec |-> 1, tv_nsec |-> 0]] :
         n \in {"onboarding", "p"}}

\* append_event(event) taking the size of the snapshot store into the address
ChainedEntry_snapshots_hashed(log, event) ==
    LET previous_cid == IF log = <<>> THEN None ELSE Some(log[Len(log)].cid)
        event_data == DebugEvent(event) \o DebugOptCid(previous_cid)
                          \o Dec(Cardinality(DOMAIN snapshots))
    IN [event_id |-> Bytes("evt_") \o Dec(Len(log)),
        event |-> event,
        cid |-> CidNew(event_data),
        previous_cid |-> previous_cid,
        sequence |-> Len(log)]

\* append_event(event) numbering the entries from 1
ChainedEntry_from_one(log, event) ==
    LET previous_cid == IF log = <<>> THEN None ELSE Some(log[Len(log)].cid)
    IN [event_id |-> Bytes("evt_") \o Dec(Len(log) + 1),
        event |-> event,
        cid |-> CidNew(DebugEvent(event) \o DebugOptCid(previous_cid)),
        previous_cid |-> previous_cid,
        sequence |-> Len(log) + 1]

\* append_event(event) not linking the entry to its predecessor
ChainedEntry_unlinked(log, event) ==
    [event_id |-> Bytes("evt_") \o Dec(Len(log)),
     event |-> event,
     cid |-> CidNew(DebugEvent(event) \o DebugOptCid(None)),
     previous_cid |-> None,
     sequence |-> Len(log)]

\* The entry append_event(event) pushes onto `log`.
ChainedEntry(log, event) ==
    LET previous_cid == IF log = <<>> THEN None ELSE Some(log[Len(log)].cid)
        event_data == DebugEvent(event) \o DebugOptCid(previous_cid)
    IN [event_id |-> Bytes("evt_") \o Dec(Len(log)),
        event |-> event,
        cid |-> CidNew(event_data),
        previous_cid |-> previous_cid,
        sequence |-> Len(log)]

\* validate_chain()'s loop from index i (0-based) on.
RECURSIVE ChainLoop(_, _)
ChainLoop(log, i) ==
    IF i >= Len(log)
    THEN [ok |-> TRUE, start_cid |-> log[1].cid, end_cid |-> log[Len(log)].cid,
          length |-> Len(log)]
    ELSE IF log[i + 1].previous_cid # Some(log[i].cid)
    THEN [ok |-> FALSE, error |-> "Chain broken", sequence |-> i,
          expected |-> log[i].cid, got |-> log[i + 1].previous_cid]
    ELSE ChainLoop(log, i + 1)

\* validate_chain() whose loop starts one entry late
validate_chain_late_start(log) ==
    IF log = <<>> THEN [ok |-> FALSE, error |-> "No events to validate"]
    ELSE ChainLoop(log, 2)

\* validate_chain() that computes the address of every entry anew
validate_chain_rehashing(log) ==
    IF log = <<>> THEN [ok |-> FALSE, error |-> "No events to validate"]
    ELSE IF \E i \in DOMAIN log :
                log[i].cid # CidNew(DebugEvent(log[i].event)
                                       \o DebugOptCid(log[i].previous_cid))
    THEN [ok |-> FALSE, error |-> "Address mismatch"]
    ELSE ChainLoop(log, 1)

\* validate_chain()
validate_chain(log) ==
    IF log = <<>> THEN [ok |-> FALSE, error |-> "No events to validate"]
    ELSE ChainLoop(log, 1)

\* replay_events(workflow_id) without its filter
replay_events_unfiltered(log, workflow_id) == log

\* replay_events(workflow_id)
RECURSIVE replay_events(_, _)
replay_events(log, workflow_id) ==
    IF log = <<>> THEN <<>>
    ELSE (IF Head(log).event.workflow_id = workflow_id THEN <<Head(log)>> ELSE <<>>)
             \o replay_events(Tail(log), workflow_id)

\* HashMap::insert that stores nothing
MapInsert_dropped(m, k, v) == m

\* HashMap::insert
MapInsert(m, k, v) == [x \in DOMAIN m \cup {k} |-> IF x = k THEN v ELSE m[x]]

\* MockWorkflowEventStore::new
StoreNew ==
    /\ events = <<>>
    /\ snapshots = <<>>
    /\ sResult = NoResult
    /\ roundTrip = [stage |-> "none"]

\* append_event(event) writing the entry over the newest one
AppendEvent_over_last(event) ==
    /\ Len(events) < MaxLog
    /\ LET entry == ChainedEntry(events, event)
       IN /\ events' = IF events = <<>> THEN <<entry>>
                       ELSE [events EXCEPT ![Len(events)] = entry]
          /\ sResult' = [op |-> "append_event", ok |-> TRUE, event_id |-> entry.event_id,
                         cid |-> entry.cid, previous_cid |-> entry.previous_cid]
    /\ roundTrip' = [stage |-> "none"]
    /\ UNCHANGED snapshots
    /\ UNCHANGED <<gvars, rvars, nvars>>

\* append_event(event)
AppendEvent(event) ==
    /\ Len(events) < MaxLog
    /\ LET entry == ChainedEntry(events, event)
       IN /\ events' = Append(events, entry)
          /\ sResult' = [op |-> "append_event", ok |-> TRUE, event_id |-> entry.event_id,
                         cid |-> entry.cid, previous_cid |-> entry.previous_cid]
    /\ roundTrip' = [stage |-> "none"]
    /\ UNCHANGED snapshots
    /\ UNCHANGED <<gvars, rvars, nvars>>

\* validate_chain()
ValidateChain ==
    /\ sResult' = [op |-> "validate_chain"] @@ validate_chain(events)
    /\ UNCHANGED <<events, snapshots, roundTrip>>
    /\ UNCHANGED <<gvars, rvars, nvars>>

\* replay_events(workflow_id) taking the replayed entries out of the log
ReplayEvents_draining(workflow_id) ==
    /\ sResult' = [op |-> "replay_events", workflow_id |-> workflow_id,
                   replayed |-> replay_events(events, workflow_id)]
    /\ events' = SelectSeq(events, LAMBDA e : e.event.workflow_id # workflow_id)
    /\ UNCHANGED <<snapshots, roundTrip>>
    /\ UNCHANGED <<gvars, rvars, nvars>>

\* replay_events(workflow_id)
ReplayEvents(workflow_id) ==
    /\ sResult' = [op |-> "replay_events", workflow_id |-> workflow_id,
                   replayed |-> replay_events(events, workflow_id)]
    /\ UNCHANGED <<events, snapshots, roundTrip>>
    /\ UNCHANGED <<gvars, rvars, nvars>>

\* create_snapshot() that also takes a snapshot of an empty log
CreateSnapshot_unguarded ==
    /\ LET snapshot_cid == CidNew(DebugLog(events))
       IN /\ Cardinality(DOMAIN snapshots \cup {snapshot_cid}) <= MaxSnapshots
          /\ snapshots' = MapInsert(snapshots, snapshot_cid, events)
          /\ sResult' = [op |-> "create_snapshot", ok |-> TRUE, cid |-> snapshot_cid]
          /\ roundTrip' = [stage |-> "snapshot", cid |-> snapshot_cid, log |-> events]
          /\ UNCHANGED events
    /\ UNCHANGED <<gvars, rvars, nvars>>

\* create_snapshot() on a store that holds snapshots under at most `cap` keys
CreateSnapshotWithin(cap) ==
    /\ IF events = <<>>
       THEN /\ sResult' = [op |-> "create_snapshot", ok |-> FALSE,
                           error |-> "No events to snapshot"]
            /\ UNCHANGED <<events, snapshots, roundTrip>>
       ELSE LET snapshot_cid == CidNew(DebugLog(events))
            IN /\ Cardinality(DOMAIN snapshots \cup {snapshot_cid}) <= cap
               /\ snapshots' = MapInsert(snapshots, snapshot_cid, events)
               /\ sResult' = [op |-> "create_snapshot", ok |-> TRUE, cid |-> snapshot_cid]
               /\ roundTrip' = [stage |-> "snapshot", cid |-> snapshot_cid,
                                log |-> events]
               /\ UNCHANGED events
    /\ UNCHANGED <<gvars, rvars, nvars>>

\* create_snapshot()
CreateSnapshot == CreateSnapshotWithin(MaxSnapshots)

\* History: a restore from the snapshot taken before the log was cleared ends
\* the round trip, `returned` being the count it returned (-1: an error).
AfterRestore(snapshot_cid, returned) ==
    IF roundTrip.stage = "cleared" /\ roundTrip.cid = snapshot_cid
    THEN [stage |-> "restored", cid |-> roundTrip.cid, log |-> roundTrip.log,
          returned |-> returned]
    ELSE [stage |-> "none"]

\* restore_from_snapshot(snapshot_cid) taking a missing snapshot for an
\* empty one
RestoreFromSnapshot_clearing(snapshot_cid) ==
    /\ LET found == IF snapshot_cid \in DOMAIN snapshots
                    THEN snapshots[snapshot_cid] ELSE <<>>
       IN /\ events' = found
          /\ sResult' = [op |-> "restore_from_snapshot", ok |-> TRUE,
                         cid |-> snapshot_cid, count |-> Len(found)]
          /\ roundTrip' = AfterRestore(snapshot_cid, Len(found))
          /\ UNCHANGED snapshots
    /\ UNCHANGED <<gvars, rvars, nvars>>

\* restore_from_snapshot(snapshot_cid) putting the snapshot's entries behind
\* the live ones
RestoreFromSnapshot_extending(snapshot_cid) ==
    /\ IF snapshot_cid \in DOMAIN snapshots
       THEN /\ Len(events) + Len(snapshots[snapshot_cid]) <= 2 * MaxLog
            /\ events' = events \o snapshots[snapshot_cid]
            /\ sResult' = [op |-> "restore_from_snapshot", ok |-> TRUE,
                           cid |-> snapshot_cid, count |-> Len(snapshots[snapshot_cid])]
            /\ roundTrip' = AfterRestore(snapshot_cid, Len(snapshots[snapshot_cid]))
            /\ UNCHANGED snapshots
       ELSE /\ sResult' = [op |-> "restore_from_snapshot", ok |-> FALSE,
                           cid |-> snapshot_cid, error |-> "Snapshot not found"]
            /\ roundTrip' = IF AfterRestore(snapshot_cid, -1).stage = "restored"
                            THEN AfterRestore(snapshot_cid, -1) ELSE roundTrip
            /\ UNCHANGED <<events, snapshots>>
    /\ UNCHANGED <<gvars, rvars, nvars>>

\* restore_from_snapshot(snapshot_cid)
RestoreFromSnapshot(snapshot_cid) ==
    /\ IF snapshot_cid \in DOMAIN snapshots
       THEN /\ events' = snapshots[snapshot_cid]
            /\ sResult' = [op |-> "restore_from_snapshot", ok |-> TRUE,
                           cid |-> snapshot_cid, count |-> Len(snapshots[snapshot_cid])]
            /\ roundTrip' = AfterRestore(snapshot_cid, Len(snapshots[snapshot_cid]))
            /\ UNCHANGED snapshots
       ELSE /\ sResult' = [op |-> "restore_from_snapshot", ok |-> FALSE,
                           cid |-> snapshot_cid, error |-> "Snapshot not found"]
            /\ roundTrip' = IF AfterRestore(snapshot_cid, -1).stage = "restored"
                            THEN AfterRestore(snapshot_cid, -1) ELSE roundTrip
            /\ UNCHANGED <<events, snapshots>>
    /\ UNCHANGED <<gvars, rvars, nvars>>

\* store.events.clear(), as the snapshot test does between snapshot and restore
ClearEvents ==
    /\ events # <<>>
    /\ events' = <<>>
    /\ sResult' = [op |-> "clear"]
    /\ roundTrip' = IF roundTrip.stage = "snapshot"
                    THEN [roundTrip EXCEPT !.stage = "cleared"]
                    ELSE [stage |-> "none"]
    /\ UNCHANGED snapshots
    /\ UNCHANGED <<gvars, rvars, nvars>>

\* The values a test may write into an entry's previous_cid.
ForgedCids(log) ==
    {None, Some(CidNew(Bytes("broken")))} \cup {Some(log[j].cid) : j \in DOMAIN log}

\* event.previous_cid = v on the entry at index k (0-based), v another value
\* than the stored one, as the broken-chain test does
BreakChain(k, v) ==
    /\ k < Len(events)
    /\ v # events[k + 1].previous_cid
    /\ events' = [events EXCEPT ![k + 1].previous_cid = v]
    /\ sResult' = [op |-> "break_chain", sequence |-> k, value |-> v]
    /\ roundTrip' = [stage |-> "none"]
    /\ UNCHANGED snapshots
    /\ UNCHANGED <<gvars, rvars, nvars>>

----------------------------------------------------------------------------
(* WorkflowCommandRouter (src/tests/infrastructure/test_message_routing.rs) *)

MaxRoutes == 3     \* route_command calls on one router

\* The commands routed: two typed variants with two payloads each, and
\* Unknown commands whose tag is free, the tag of a typed variant included.
Commands ==
    {[variant |-> v, workflow_id |-> w] :
         v \in {"CreateWorkflow", "AddStep"}, w \in {"wf-1", "wf-2"}} \cup
    {[variant |-> "Unknown", command_type |-> t] :
         t \in {"unknown_command", "create_workflow"}}

\* The tags handlers are registered under, and the responses they are built with.
HandlerTags == {"create_workflow", "add_step"}
Responses == {[kind |-> "Success", message |-> <<"done">>],
              [kind |-> "Async", correlation_id |-> "corr-1"]}

\* start.elapsed() of one route_command call, in nanoseconds
Durations == {1, 2}

\* get_command_type(command)
get_command_type(command) ==
    CASE command.variant = "CreateWorkflow" -> "create_workflow"
      [] command.variant = "AddStep" -> "add_step"
      [] command.variant = "StartWorkflow" -> "start_workflow"
      [] command.variant = "CompleteStep" -> "complete_step"
      [] command.variant = "CancelWorkflow" -> "cancel_workflow"
      [] command.variant = "Unknown" -> command.command_type

\* format!("handler_{command_type}"); a formatted string is the sequence of
\* its pieces, a literal string the sequence of itself
HandlerId(command_type) == <<"handler_", command_type>>

\* MockWorkflowHandler::new(command_type, response)
MockWorkflowHandler(command_type, response) ==
    [type |-> "MockWorkflowHandler", command_type |-> command_type,
     response |-> response, count |-> 0]

\* FallbackHandler::new()
FallbackHandler == [type |-> "FallbackHandler", command_type |-> "fallback", count |-> 0]

\* handler.handle(command) that does not count the call
Handle_uncounted(handler, command) ==
    [response |-> IF handler.type = "FallbackHandler"
                  THEN [kind |-> "Error",
                        message |-> <<"Unknown command type: ", command>>]
                  ELSE handler.response,
     handler |-> handler]

\* handler.handle(command) through a router that turns an Async response into
\* a Success
Handle_completing(handler, command) ==
    [response |-> IF handler.type = "FallbackHandler"
                  THEN [kind |-> "Error",
                        message |-> <<"Unknown command type: ", command>>]
                  ELSE IF handler.response.kind = "Async"
                  THEN [kind |-> "Success", message |-> <<"done">>]
                  ELSE handler.response,
     handler |-> [handler EXCEPT !.count = @ + 1]]

\* handler.handle(command): the response, and the handler with its counter
\* of calls raised by one.
Handle(handler, command) ==
    [response |-> IF handler.type = "FallbackHandler"
                  THEN [kind |-> "Error",
                        message |-> <<"Unknown command type: ", command>>]
                  ELSE handler.response,
     handler |-> [handler EXCEPT !.count = @ + 1]]

\* self.routing_times.iter().map(|d| d.as_nanos()).sum()
RECURSIVE SumNanos(_)
SumNanos(times) == IF times = <<>> THEN 0 ELSE Head(times) + SumNanos(Tail(times))

\* *self.stats.by_command_type.entry(command_type).or_insert(0) += 1
CountUp(by_command_type, command_type) ==
    MapInsert(by_command_type, command_type,
              IF command_type \in DOMAIN by_command_type
              THEN by_command_type[command_type] + 1 ELSE 1)

\* route_command answering a command without handler with a success
NoHandlerResponse_success == [kind |-> "Success", message |-> <<"No handler found">>]

\* The response of route_command when neither a handler nor a fallback is there
NoHandlerResponse == [kind |-> "Error", message |-> <<"No handler found">>]

\* route_command asking for the fallback before the table
Resolve_fallback_first(table, fallback, command_type) ==
    IF fallback.some THEN "fallback"
    ELSE IF command_type \in DOMAIN table THEN "specific"
    ELSE "none"

\* Which handler route_command takes for a tag: the one registered for it,
\* else the fallback, else none.
Resolve(table, fallback, command_type) ==
    IF command_type \in DOMAIN table THEN "specific"
    ELSE IF fallback.some THEN "fallback"
    ELSE "none"

\* WorkflowCommandRouter::new
RouterNew ==
    /\ handlers = <<>>
    /\ fallback_handler = [some |-> FALSE]
    /\ stats = [total_routed |-> 0, by_command_type |-> <<>>, fallback_count |-> 0,
                average_routing_time |-> 0]
    /\ routing_times = <<>>
    /\ rResult = NoResult

\* register_handler(handler) overwriting the handler of a tag
RegisterHandler_overwriting(handler) ==
    /\ handlers' = MapInsert(handlers, handler.command_type, handler)
    /\ rResult' = [op |-> "register_handler", ok |-> TRUE,
                   command_type |-> handler.command_type,
                   handler_id |-> HandlerId(handler.command_type)]
    /\ UNCHANGED <<fallback_handler, stats, routing_times>>
    /\ UNCHANGED <<gvars, svars, nvars>>

\* register_handler(handler)
RegisterHandler(handler) ==
    /\ LET command_type == handler.command_type
       IN IF command_type \in DOMAIN handlers
          THEN /\ rResult' = [op |-> "register_handler", ok |-> FALSE,
                              command_type |-> command_type,
                              error |-> "Handler already registered"]
               /\ UNCHANGED <<handlers, fallback_handler, stats, routing_times>>
          ELSE /\ handlers' = MapInsert(handlers, command_type, handler)
               /\ rResult' = [op |-> "register_handler", ok |-> TRUE,
                              command_type |-> command_type,
                              handler_id |-> HandlerId(command_type)]
               /\ UNCHANGED <<fallback_handler, stats, routing_times>>
    /\ UNCHANGED <<gvars, svars, nvars>>

\* set_fallback_handler(handler)
SetFallbackHandler(handler) ==
    /\ fallback_handler' = [some |-> TRUE, handler |-> handler]
    /\ rResult' = [op |-> "set_fallback_handler"]
    /\ UNCHANGED <<handlers, stats, routing_times>>
    /\ UNCHANGED <<gvars, svars, nvars>>

\* route_command(command) returning at once, with nothing recorded, when
\* neither a handler nor a fallback is there
RouteCommand_unrecorded(command, elapsed) ==
    /\ stats.total_routed < MaxRoutes
    /\ LET command_type == get_command_type(command)
           resolved == Resolve(handlers, fallback_handler, command_type)
           specific == resolved = "specific"
           viaFallback == resolved = "fallback"
           handled ==
               IF specific THEN Handle(handlers[command_type], command)
               ELSE IF viaFallback THEN Handle(fallback_handler.handler, command)
               ELSE [response |-> NoHandlerResponse]
           handler_id ==
               IF specific THEN HandlerId(command_type)
               ELSE IF viaFallback THEN <<"fallback">> ELSE <<"none">>
           times == Append(routing_times, elapsed)
       IN /\ handlers' = IF specific
                         THEN [handlers EXCEPT ![command_type] = handled.handler]
                         ELSE handlers
          /\ fallback_handler' = IF viaFallback
                                 THEN [some |-> TRUE, handler |-> handled.handler]
                                 ELSE fallback_handler
          /\ IF resolved = "none"
             THEN UNCHANGED <<routing_times, stats>>
             ELSE /\ routing_times' = times
                  /\ stats' = [total_routed |-> stats.total_routed + 1,
                               by_command_type |->
                                   CountUp(stats.by_command_type, command_type),
                               fallback_count |->
                                   IF viaFallback THEN stats.fallback_count + 1
                                   ELSE stats.fallback_count,
                               average_routing_time |-> SumNanos(times) \div Len(times)]
          /\ rResult' = [op |-> "route_command", command |-> command,
                         command_type |-> command_type,
                         response |-> handled.response, handler_id |-> handler_id]
    /\ UNCHANGED <<gvars, svars, nvars>>

\* route_command(command), the call taking `elapsed` nanoseconds
RouteCommand(command, elapsed) ==
    /\ stats.total_routed < MaxRoutes
    /\ LET command_type == get_command_type(command)
           resolved == Resolve(handlers, fallback_handler, command_type)
           specific == resolved = "specific"
           viaFallback == resolved = "fallback"
           handled ==
               IF specific THEN Handle(handlers[command_type], command)
               ELSE IF viaFallback THEN Handle(fallback_handler.handler, command)
               ELSE [response |-> NoHandlerResponse]
           handler_id ==
               IF specific THEN HandlerId(command_type)
               ELSE IF viaFallback THEN <<"fallback">> ELSE <<"none">>
           times == Append(routing_times, elapsed)
       IN /\ handlers' = IF specific
                         THEN [handlers EXCEPT ![command_type] = handled.handler]
                         ELSE handlers
          /\ fallback_handler' = IF viaFallback
                                 THEN [some |-> TRUE, handler |-> handled.handler]
                                 ELSE fallback_handler
          /\ routing_times' = times
          /\ stats' = [total_routed |-> stats.total_routed + 1,
                       by_command_type |-> CountUp(stats.by_command_type, command_type),
                       fallback_count |-> IF viaFallback THEN stats.fallback_count + 1
                                          ELSE stats.fallback_count,
                       average_routing_time |-> SumNanos(times) \div Len(times)]
          /\ rResult' = [op |-> "route_command", command |-> command,
                         command_type |-> command_type,
                         response |-> handled.response, handler_id |-> handler_id]
    /\ UNCHANGED <<gvars, svars, nvars>>

\* remove_handler(command_type) reporting success and removing nothing
RemoveHandler_keeping(command_type) ==
    /\ rResult' = [op |-> "remove_handler", ok |-> command_type \in DOMAIN handlers,
                   command_type |-> command_type]
    /\ UNCHANGED <<handlers, fallback_handler, stats, routing_times>>
    /\ UNCHANGED <<gvars, svars, nvars>>

\* remove_handler(command_type) that also drops the count of the tag
RemoveHandler_forgetting(command_type) ==
    /\ IF command_type \in DOMAIN handlers
       THEN /\ handlers' = [t \in DOMAIN handlers \ {command_type} |-> handlers[t]]
            /\ stats' = [stats EXCEPT !.by_command_type =
                             [t \in DOMAIN @ \ {command_type} |-> @[t]]]
            /\ rResult' = [op |-> "remove_handler", ok |-> TRUE,
                           command_type |-> command_type]
            /\ UNCHANGED <<fallback_handler, routing_times>>
       ELSE /\ rResult' = [op |-> "remove_handler", ok |-> FALSE,
                           command_type |-> command_type, error |-> "Handler not found"]
            /\ UNCHANGED <<handlers, fallback_handler, stats, routing_times>>
    /\ UNCHANGED <<gvars, svars, nvars>>

\* remove_handler(command_type)
RemoveHandler(command_type) ==
    /\ IF command_type \in DOMAIN handlers
       THEN /\ handlers' = [t \in DOMAIN handlers \ {command_type} |-> handlers[t]]
            /\ rResult' = [op |-> "remove_handler", ok |-> TRUE,
                           command_type |-> command_type]
            /\ UNCHANGED <<fallback_handler, stats, routing_times>>
       ELSE /\ rResult' = [op |-> "remove_handler", ok |-> FALSE,
                           command_type |-> command_type, error |-> "Handler not found"]
            /\ UNCHANGED <<handlers, fallback_handler, stats, routing_times>>
    /\ UNCHANGED <<gvars, svars, nvars>>

----------------------------------------------------------------------------
(* MockNatsClient (src/tests/infrastructure/test_nats_connection.rs) *)

MaxPublished == 2  \* successful publishes on one client

\* Strings the client inspects are sequences of characters.
\* str::ends_with, str::starts_with, str::contains(char)
ends_with(str, suffix) ==
    Len(suffix) <= Len(str) /\ SubSeq(str, Len(str) - Len(suffix) + 1, Len(str)) = suffix
starts_with(str, prefix) ==
    Len(prefix) <= Len(str) /\ SubSeq(str, 1, Len(prefix)) = prefix
contains(str, ch) == \E i \in DOMAIN str : str[i] = ch

\* str::split(ch).collect()
RECURSIVE split(_, _)
split(str, ch) ==
    IF ~contains(str, ch) THEN <<str>>
    ELSE LET i == CHOOSE i \in DOMAIN str :
                      str[i] = ch /\ \A j \in 1..(i - 1) : str[j] # ch
         IN <<SubSeq(str, 1, i - 1)>> \o split(SubSeq(str, i + 1, Len(str)), ch)

\* The closure of publish_workflow_event: does the pattern `subj` of a stream
\* take `subject`?
subject_matches(subj, subject) ==
    IF ends_with(subj, <<".", ">">>)
    THEN starts_with(subject, SubSeq(subj, 1, Len(subj) - 2))
    ELSE IF contains(subj, "*")
    THEN LET parts == split(subj, ".")
             subject_parts == split(subject, ".")
         IN /\ Len(parts) = Len(subject_parts)
            /\ \A i \in DOMAIN parts : parts[i] = <<"*">> \/ parts[i] = subject_parts[i]
    ELSE subject = subj

\* find(..) taking the first stream of the map whatever its patterns
find_stream_unmatched(table, order, subject) ==
    IF order = <<>> THEN "" ELSE Head(order)

\* streams.values_mut().find(..): the first stream, in the map's iteration
\* order, one of whose patterns takes the subject; "" when there is none
RECURSIVE find_stream(_, _, _)
find_stream(table, order, subject) ==
    IF order = <<>> THEN ""
    ELSE IF \E i \in DOMAIN table[Head(order)].subjects :
                subject_matches(table[Head(order)].subjects[i], subject)
    THEN Head(order)
    ELSE find_stream(table, Tail(order), subject)

\* The names, patterns, subjects and messages the client is called with
StreamNames == {"ORDERS", "EVENTS"}
SubjectLists == {<< <<"a", ".", ">">> >>, << <<"a", ".", "*">> >>,
                 << <<"a", ".", "b">> >>}
PublishSubjects == {<<"a", ".", "b">>, <<"a", ".", "c">>, <<"a", "b">>}
ConsumerNames == {"c1", "c2"}

\* The k-th message a caller publishes carries the event id and payload k
NextPublished ==
    [event_id |-> <<"evt_", Len(published_messages) + 1>>,
     payload |-> <<Len(published_messages) + 1>>]

\* The orders the map may iterate in once `name` is inserted: the key lands
\* anywhere among the others
Inserted(order, name) ==
    {SubSeq(order, 1, i) \o <<name>> \o SubSeq(order, i + 1, Len(order)) :
         i \in 0..Len(order)}

\* The iteration order without `name`
RECURSIVE Removed(_, _)
Removed(order, name) ==
    IF order = <<>> THEN <<>>
    ELSE IF Head(order) = name THEN Tail(order)
    ELSE <<Head(order)>> \o Removed(Tail(order), name)

NatsErr(op, message) == [op |-> op, ok |-> FALSE, error |-> message]

\* MockNatsClient::new
NatsNew ==
    /\ connected = FALSE
    /\ streams = <<>>
    /\ streamsIter = <<>>
    /\ published_messages = <<>>
    /\ nResult = NoResult

\* connect()
Connect ==
    /\ IF connected
       THEN /\ nResult' = NatsErr("connect", "Already connected")
            /\ UNCHANGED connected
       ELSE /\ connected' = TRUE
            /\ nResult' = [op |-> "connect", ok |-> TRUE]
    /\ UNCHANGED <<streams, streamsIter, published_messages>>
    /\ UNCHANGED <<gvars, svars, rvars>>

\* disconnect() dropping the streams with the connection
Disconnect_dropping_streams ==
    /\ connected' = FALSE
    /\ streams' = <<>>
    /\ streamsIter' = <<>>
    /\ nResult' = [op |-> "disconnect"]
    /\ UNCHANGED published_messages
    /\ UNCHANGED <<gvars, svars, rvars>>

\* disconnect()
Disconnect ==
    /\ connected' = FALSE
    /\ nResult' = [op |-> "disconnect"]
    /\ UNCHANGED <<streams, streamsIter, published_messages>>
    /\ UNCHANGED <<gvars, svars, rvars>>

\* create_stream(name, subjects) putting a new stream in the place of an
\* existing one of that name
CreateStream_replacing(name, subjects) ==
    /\ IF ~connected
       THEN /\ nResult' = NatsErr("create_stream", "Not connected")
            /\ UNCHANGED <<streams, streamsIter>>
       ELSE /\ streams' = MapInsert(streams, name,
                              [name |-> name, subjects |-> subjects,
                               messages |-> <<>>, consumers |-> <<>>])
            /\ IF name \in DOMAIN streams
               THEN streamsIter' = streamsIter
               ELSE streamsIter' \in Inserted(streamsIter, name)
            /\ nResult' = [op |-> "create_stream", ok |-> TRUE, name |-> name]
    /\ UNCHANGED <<connected, published_messages>>
    /\ UNCHANGED <<gvars, svars, rvars>>

\* create_stream(name, subjects)
CreateStream(name, subjects) ==
    /\ IF ~connected
       THEN /\ nResult' = NatsErr("create_stream", "Not connected")
            /\ UNCHANGED <<streams, streamsIter>>
       ELSE IF name \in DOMAIN streams
       THEN /\ nResult' = NatsErr("create_stream", "Stream already exists")
            /\ UNCHANGED <<streams, streamsIter>>
       ELSE /\ streams' = MapInsert(streams, name,
                              [name |-> name, subjects |-> subjects,
                               messages |-> <<>>, consumers |-> <<>>])
            /\ streamsIter' \in Inserted(streamsIter, name)
            /\ nResult' = [op |-> "create_stream", ok |-> TRUE, name |-> name]
    /\ UNCHANGED <<connected, published_messages>>
    /\ UNCHANGED <<gvars, svars, rvars>>

\* The acknowledgment id made of the stream's sequence number alone
AckId_of_stream_sequence(global_sequence, sequence) ==
    Bytes("ack_") \o Dec(sequence) \o Bytes("_") \o Dec(sequence)

\* format!("ack_{}_{}", global_sequence, sequence), as bytes
AckId(global_sequence, sequence) ==
    Bytes("ack_") \o Dec(global_sequence) \o Bytes("_") \o Dec(sequence)

\* get_published_count()
get_published_count == Len(published_messages)

\* publish_workflow_event(subject, event_id, payload)
PublishWorkflowEvent(subject, event_id, payload) ==
    /\ IF ~connected
       THEN /\ nResult' = NatsErr("publish_workflow_event", "Not connected")
            /\ UNCHANGED <<streams, published_messages>>
       ELSE LET stream == find_stream(streams, streamsIter, subject)
            IN IF stream = ""
               THEN /\ nResult' = NatsErr("publish_workflow_event",
                                          "No stream for subject")
                    /\ UNCHANGED <<streams, published_messages>>
               ELSE LET sequence == Len(streams[stream].messages) + 1
                        global_sequence == Len(published_messages) + 1
                        ack_id == AckId(global_sequence, sequence)
                    IN /\ Len(published_messages) < MaxPublished
                       /\ streams' = [streams EXCEPT ![stream].messages =
                              Append(@, [subject |-> subject, payload |-> payload,
                                         sequence |-> sequence])]
                       /\ published_messages' = Append(published_messages,
                              [subject |-> subject, payload |-> payload,
                               headers |-> [event_id |-> event_id,
                                            sequence |-> sequence],
                               ack_id |-> ack_id])
                       /\ nResult' = [op |-> "publish_workflow_event", ok |-> TRUE,
                                      subject |-> subject, ack_id |-> ack_id]
    /\ UNCHANGED <<connected, streamsIter>>
    /\ UNCHANGED <<gvars, svars, rvars>>

\* create_consumer(stream_name, consumer_name)
CreateConsumer(stream_name, consumer_name) ==
    /\ IF ~connected
       THEN /\ nResult' = NatsErr("create_consumer", "Not connected")
            /\ UNCHANGED streams
       ELSE IF stream_name \notin DOMAIN streams
       THEN /\ nResult' = NatsErr("create_consumer", "Stream not found")
            /\ UNCHANGED streams
       ELSE IF consumer_name \in DOMAIN streams[stream_name].consumers
       THEN /\ nResult' = NatsErr("create_consumer", "Consumer already exists")
            /\ UNCHANGED streams
       ELSE /\ streams' = [streams EXCEPT ![stream_name].consumers =
                              MapInsert(@, consumer_name,
                                  [name |-> consumer_name, stream_name |-> stream_name,
                                   delivered |-> <<>>])]
            /\ nResult' = [op |-> "create_consumer", ok |-> TRUE,
                           stream_name |-> stream_name, consumer_name |-> consumer_name]
    /\ UNCHANGED <<connected, streamsIter, published_messages>>
    /\ UNCHANGED <<gvars, svars, rvars>>

\* consume_next handing out the newest message of the stream
next_undelivered_newest(messages, delivered) ==
    IF Len(delivered) < Len(messages)
    THEN [some |-> TRUE, event_id |-> <<"evt_", Len(delivered)>>,
          payload |-> messages[Len(messages)].payload]
    ELSE [some |-> FALSE]

\* What consume_next returns for a consumer that has `delivered` of the
\* stream's `messages`: the next message under the event id evt_<position>,
\* or None.
next_undelivered(messages, delivered) ==
    LET next_seq == Len(delivered)
    IN IF next_seq < Len(messages)
       THEN [some |-> TRUE, event_id |-> <<"evt_", next_seq>>,
             payload |-> messages[next_seq + 1].payload]
       ELSE [some |-> FALSE]

\* consume_next(stream_name, consumer_name)
ConsumeNext(stream_name, consumer_name) ==
    /\ IF ~connected
       THEN /\ nResult' = NatsErr("consume_next", "Not connected")
            /\ UNCHANGED streams
       ELSE IF stream_name \notin DOMAIN streams
       THEN /\ nResult' = NatsErr("consume_next", "Stream not found")
            /\ UNCHANGED streams
       ELSE IF consumer_name \notin DOMAIN streams[stream_name].consumers
       THEN /\ nResult' = NatsErr("consume_next", "Consumer not found")
            /\ UNCHANGED streams
       ELSE LET stream == streams[stream_name]
                next == next_undelivered(stream.messages,
                            stream.consumers[consumer_name].delivered)
            IN /\ streams' = IF next.some
                             THEN [streams EXCEPT
                                      ![stream_name].consumers[consumer_name].delivered =
                                          Append(@, next.event_id)]
                             ELSE streams
               /\ nResult' = [op |-> "consume_next", ok |-> TRUE,
                              stream_name |-> stream_name,
                              consumer_name |-> consumer_name, value |-> next]
    /\ UNCHANGED <<connected, streamsIter, published_messages>>
    /\ UNCHANGED <<gvars, svars, rvars>>

\* delete_stream(stream_name) that does not ask whether the client is connected
DeleteStream_offline(stream_name) ==
    /\ IF stream_name \notin DOMAIN streams
       THEN /\ nResult' = NatsErr("delete_stream", "Stream not found")
            /\ UNCHANGED <<streams, streamsIter>>
       ELSE /\ streams' = [n \in DOMAIN streams \ {stream_name} |-> streams[n]]
            /\ streamsIter' = Removed(streamsIter, stream_name)
            /\ nResult' = [op |-> "delete_stream", ok |-> TRUE, name |-> stream_name]
    /\ UNCHANGED <<connected, published_messages>>
    /\ UNCHANGED <<gvars, svars, rvars>>

\* delete_stream(stream_name)
DeleteStream(stream_name) ==
    /\ IF ~connected
       THEN /\ nResult' = NatsErr("delete_stream", "Not connected")
            /\ UNCHANGED <<streams, streamsIter>>
       ELSE IF stream_name \notin DOMAIN streams
       THEN /\ nResult' = NatsErr("delete_stream", "Stream not found")
            /\ UNCHANGED <<streams, streamsIter>>
       ELSE /\ streams' = [n \in DOMAIN streams \ {stream_name} |-> streams[n]]
            /\ streamsIter' = Removed(streamsIter, stream_name)
            /\ nResult' = [op |-> "delete_stream", ok |-> TRUE, name |-> stream_name]
    /\ UNCHANGED <<connected, published_messages>>
    /\ UNCHANGED <<gvars, svars, rvars>>

----------------------------------------------------------------------------
(* Specifications *)

\* WorkflowGraph::new, MockWorkflowEventStore::new, WorkflowCommandRouter::new,
\* MockNatsClient::new
Init == GraphNew /\ StoreNew /\ RouterNew /\ NatsNew

\* WorkflowGraph::from_workflow of any step map
InitFromWorkflow == GraphFromWorkflow /\ StoreNew /\ RouterNew /\ NatsNew

\* The addresses restore_from_snapshot is called with: the keys of the
\* snapshot store, the address the last create_snapshot returned, and an
\* address no snapshot has.
SnapshotCids ==
    DOMAIN snapshots \cup {CidNew(Bytes("broken"))} \cup
        (IF roundTrip.stage \in {"snapshot", "cleared"} THEN {roundTrip.cid} ELSE {})

GraphNext ==
    \/ \E deps \in DepLists : AddStep(deps)
    \/ Start
    \/ Complete
    \/ \E s \in DOMAIN steps : StepLifecycle(s)
    \/ GetExecutableSteps
    \/ Validate

StoreNext ==
    \/ \E event \in Payloads : AppendEvent(event)
    \/ ValidateChain
    \/ \E w \in WorkflowIds : ReplayEvents(w)
    \/ CreateSnapshot
    \/ \E c \in SnapshotCids : RestoreFromSnapshot(c)

\* The snapshot test: the store's methods, and the live log cleared.
StoreClearNext ==
    \/ StoreNext
    \/ ClearEvents

\* The broken-chain test: events appended, previous_cid fields overwritten,
\* the chain validated.
StoreBreakNext ==
    \/ \E event \in Payloads : AppendEvent(event)
    \/ \E k \in 0..(MaxLog - 1) : \E v \in ForgedCids(events) : BreakChain(k, v)
    \/ ValidateChain

RouterNext ==
    \/ \E t \in HandlerTags : \E r \in Responses :
           RegisterHandler(MockWorkflowHandler(t, r))
    \/ SetFallbackHandler(FallbackHandler)
    \/ \E c \in Commands : \E d \in Durations : RouteCommand(c, d)
    \/ \E t \in HandlerTags : RemoveHandler(t)

\* WorkflowGraph::new and the calls on it
Spec == Init /\ [][GraphNext]_vars

\* WorkflowGraph::from_workflow of any step map, then validate()
SpecValidate == InitFromWorkflow /\ [][Validate]_vars

\* The event store through its methods
SpecStore == Init /\ [][StoreNext]_vars

\* The event store as test_workflow_snapshot_creation_and_restoration uses it
SpecStoreClear == Init /\ [][StoreClearNext]_vars

\* The event store as test_broken_chain_detection uses it
SpecStoreBreak == Init /\ [][StoreBreakNext]_vars

\* append_event, validate_chain, create_snapshot and restore_from_snapshot
\* on a store with room for several snapshots
StoreRestoreNext ==
    \/ \E event \in Payloads : AppendEvent(event)
    \/ ValidateChain
    \/ CreateSnapshotWithin(MaxRestorePoints)
    \/ \E c \in SnapshotCids : RestoreFromSnapshot(c)

\* The event store restored from older snapshots
SpecStoreRestore == Init /\ [][StoreRestoreNext]_vars

\* The store's methods, called with events whose addresses collide
StoreCollideNext ==
    \/ \E event \in CollidingPayloads : AppendEvent(event)
    \/ ValidateChain
    \/ \E w \in WorkflowIds : ReplayEvents(w)
    \/ CreateSnapshotWithin(MaxRestorePoints)
    \/ \E c \in SnapshotCids : RestoreFromSnapshot(c)

\* The event store holding events whose addresses collide
SpecStoreCollide == Init /\ [][StoreCollideNext]_vars

\* The command router
SpecRouter == Init /\ [][RouterNext]_vars

\* The client called with stream names, pattern lists, subjects and consumer
\* names of the given sets
NatsCalls(names, lists, subjects, consumers) ==
    \/ Connect
    \/ Disconnect
    \/ \E name \in names : \E l \in lists : CreateStream(name, l)
    \/ \E subject \in subjects :
           PublishWorkflowEvent(subject, NextPublished.event_id, NextPublished.payload)
    \/ \E stream_name \in names : \E consumer_name \in consumers :
           CreateConsumer(stream_name, consumer_name)
    \/ \E stream_name \in names : \E consumer_name \in consumers :
           ConsumeNext(stream_name, consumer_name)
    \/ \E stream_name \in names : DeleteStream(stream_name)

\* Streams of every pattern, one consumer
NatsNext == NatsCalls(StreamNames, SubjectLists, PublishSubjects, {"c1"})

\* One stream and its subjects, every consumer
NatsConsumeNext ==
    NatsCalls({"EVENTS"}, {<< <<"a", ".", ">">> >>},
              {<<"a", ".", "b">>, <<"a", ".", "c">>}, ConsumerNames)

\* The NATS client
SpecNats == Init /\ [][NatsNext]_vars

\* The NATS client, as the consumption and ordering tests use it
SpecNatsConsume == Init /\ [][NatsConsumeNext]_vars

----------------------------------------------------------------------------
(* Properties of WorkflowGraph *)

\* The steps of the map that step s lists as dependencies
DependsOn(stepMap, s) == Range(stepMap[s].dependencies) \cap DOMAIN stepMap

\* `seen` and the steps reached from `frontier` along dependency edges
RECURSIVE ReachFrom(_, _, _)
ReachFrom(stepMap, frontier, seen) ==
    LET next == UNION {DependsOn(stepMap, s) : s \in frontier} \ seen
    IN IF next = {} THEN seen ELSE ReachFrom(stepMap, next, seen \cup next)

\* Step s reaches itself along one or more dependency edges
OnCycle(stepMap, s) == s \in ReachFrom(stepMap, {s}, {})

Acyclic(stepMap) == \A s \in DOMAIN stepMap : ~OnCycle(stepMap, s)

\* Every dependency id of every step is a key of the map
ReferentialIntegrity(stepMap) ==
    \A s \in DOMAIN stepMap : Range(stepMap[s].dependencies) \subseteq DOMAIN stepMap

\* Four steps a, b, c, d with a -> b, a -> c, b -> d, c -> d and no other edge
IsDiamond(stepMap) ==
    \E a, b, c, d \in DOMAIN stepMap :
        /\ Cardinality({a, b, c, d}) = 4
        /\ DOMAIN stepMap = {a, b, c, d}
        /\ Range(stepMap[a].dependencies) = {b, c}
        /\ Range(stepMap[b].dependencies) = {d}
        /\ Range(stepMap[c].dependencies) = {d}
        /\ stepMap[d].dependencies = <<>>

\* C1: validate() returns Ok if and only if every dependency id of every step
\* is a key of the step map and no step reaches itself along dependency
\* edges, whatever dangling ids, self-loops and cycles the map holds.
C1_ValidateOkIffWellFormed ==
    gResult.op = "validate" =>
        (gResult.kind = "Ok" <=> ReferentialIntegrity(steps) /\ Acyclic(steps))

\* validate() has returned Ok on a diamond
C1_Witness ==
    gResult.op = "validate" /\ gResult.kind = "Ok" /\ IsDiamond(steps)

\* C2: add_step with a dependency list holding an id that is no step of the
\* graph fails with InvalidDependency and leaves the step map and the context
\* graph as they were.
C2_UnknownDependencyRejected ==
    [][\A deps \in DepLists :
           (~(Range(deps) \subseteq DOMAIN steps) /\ AddStep(deps)) =>
               /\ gResult'.kind = "InvalidDependency"
               /\ steps' = steps
               /\ context_graph' = context_graph]_vars

\* C3: whenever some step reaches itself along dependency edges, validate()
\* returns CircularDependency and the step it names lies on a cycle; a diamond
\* passes.
C3_CycleReported ==
    gResult.op = "validate" =>
        /\ ~Acyclic(steps) =>
               gResult.kind = "CircularDependency" /\ OnCycle(steps, gResult.step)
        /\ IsDiamond(steps) => gResult.kind = "Ok"

\* C4: validate() terminates with Ok or an error on every finite step map,
\* cycles that do not pass through the step under examination included.
C4_ValidateTerminates ==
    gResult.op = "validate" =>
        gResult.kind \in {"Ok", "CircularDependency", "InvalidDependency"}

\* The steps that are Pending or Ready with every dependency Completed
ExecutableByRule(stepMap) ==
    {s \in DOMAIN stepMap :
        /\ stepMap[s].status = "Pending" \/ stepMap[s].status = "Ready"
        /\ \A i \in DOMAIN stepMap[s].dependencies :
               /\ stepMap[s].dependencies[i] \in DOMAIN stepMap
               /\ stepMap[stepMap[s].dependencies[i]].status = "Completed"}

\* Step a without dependencies and step b depending on a, and no other step
IsPair(stepMap, a, b) ==
    /\ DOMAIN stepMap = {a, b} /\ a # b
    /\ stepMap[a].dependencies = <<>>
    /\ stepMap[b].dependencies = <<a>>

----------------------------------------------------------------------------
(* Properties of MockWorkflowEventStore *)

\* C6: after N >= 1 append_event calls on a new store, validate_chain()
\* succeeds and returns the address of entry 0, the address of entry N-1
\* and N.
C6_ChainValidates ==
    (sResult.op = "validate_chain" /\ events # <<>>) =>
        sResult = [op |-> "validate_chain", ok |-> TRUE,
                   start_cid |-> events[1].cid,
                   end_cid |-> events[Len(events)].cid,
                   length |-> Len(events)]

\* validate_chain() has succeeded on a log of three entries
C6_Witness ==
    sResult.op = "validate_chain" /\ sResult.ok /\ sResult.length = 3

\* The log that appending the payloads of `log`, in their order, to a new
\* store builds
RECURSIVE Rebuilt(_, _)
Rebuilt(log, n) ==
    IF n = 0 THEN <<>>
    ELSE LET before == Rebuilt(log, n - 1)
         IN Append(before, ChainedEntry(before, log[n].event))

\* The positions (0-based) at which `log` is not the log its appends built
Replaced(log) == {k \in 0..(Len(log) - 1) : log[k + 1] # Rebuilt(log, Len(log))[k + 1]}

\* `log` is a log of appended events but for the previous_cid at position k
ReplacedPreviousAt(log, k) ==
    /\ Replaced(log) = {k}
    /\ log[k + 1] = [Rebuilt(log, Len(log))[k + 1] EXCEPT
                        !.previous_cid = log[k + 1].previous_cid]

\* C7: in a log of N appended events whose stored previous address was
\* replaced by another value at exactly one position k in 1..N-1,
\* validate_chain() fails with the chain-broken error reporting sequence k,
\* the address of entry k-1 as expected and the stored value as actual.
C7_BrokenChainReported ==
    sResult.op = "validate_chain" =>
        \A k \in 1..(Len(events) - 1) :
            ReplacedPreviousAt(events, k) =>
                sResult = [op |-> "validate_chain", ok |-> FALSE,
                           error |-> "Chain broken", sequence |-> k,
                           expected |-> events[k].cid,
                           got |-> events[k + 1].previous_cid]

\* validate_chain() has reported the break at sequence 2 of a log of three
\* entries whose first link is intact
C7_Witness ==
    /\ sResult.op = "validate_chain"
    /\ Len(events) = 3
    /\ ReplacedPreviousAt(events, 2)
    /\ ~sResult.ok /\ sResult.sequence = 2

\* The result of replay_events(w) on `log`: entries of the log as they stand
\* there, all with workflow id w, none with that id left out, in log order
IsReplayOf(replayed, log, w) ==
    /\ \A i \in DOMAIN replayed :
           /\ replayed[i].sequence + 1 \in DOMAIN log
           /\ replayed[i] = log[replayed[i].sequence + 1]
           /\ replayed[i].event.workflow_id = w
    /\ \A i, j \in DOMAIN replayed :
           i < j => replayed[i].sequence < replayed[j].sequence
    /\ \A k \in DOMAIN log :
           log[k].event.workflow_id = w => \E i \in DOMAIN replayed : replayed[i] = log[k]

\* C8: replay_events(w) returns exactly the entries whose payload carries
\* workflow id w, in append order, with their sequence numbers and addresses,
\* and a second call right after returns the same.
C8_ReplayFilters ==
    /\ [](sResult.op = "replay_events" =>
              IsReplayOf(sResult.replayed, events, sResult.workflow_id))
    /\ [][(sResult.op = "replay_events" /\ sResult'.op = "replay_events"
              /\ sResult'.workflow_id = sResult.workflow_id) =>
                  sResult'.replayed = sResult.replayed]_vars

\* replay_events has returned entries 0 and 2 of a log whose entry 1 belongs
\* to another workflow
C8_Witness ==
    /\ sResult.op = "replay_events"
    /\ Len(events) = 3
    /\ events[2].event.workflow_id # sResult.workflow_id
    /\ Len(sResult.replayed) = 2
    /\ sResult.replayed[1].sequence = 0 /\ sResult.replayed[2].sequence = 2

\* C9: for a store with N >= 1 events, create_snapshot(), the live log
\* cleared, then restore_from_snapshot of the address returned: the restore
\* returns N and the live log is the N entries it was, field by field and in
\* order.
C9_SnapshotRoundTrip ==
    roundTrip.stage = "restored" =>
        /\ roundTrip.returned = Len(roundTrip.log)
        /\ Len(roundTrip.log) >= 1
        /\ events = roundTrip.log
        /\ \A i \in DOMAIN roundTrip.log :
               /\ events[i].cid = roundTrip.log[i].cid
               /\ events[i].previous_cid = roundTrip.log[i].previous_cid
               /\ events[i].sequence = roundTrip.log[i].sequence
               /\ events[i].event = roundTrip.log[i].event

\* A snapshot of three entries has been restored into the cleared log
C9_Witness ==
    /\ roundTrip.stage = "restored"
    /\ roundTrip.returned = 3
    /\ Len(events) = 3 /\ events = roundTrip.log

----------------------------------------------------------------------------
(* Properties of WorkflowCommandRouter *)

\* C10: with a handler registered for tag T, route_command of a command with
\* tag T calls that handler once and no other, does not call the fallback
\* handler even if one is set, leaves the fallback counter as it was and
\* returns the handler id "handler_T".
C10_RegisteredHandlerRouted ==
    [][\A c \in Commands : \A d \in Durations :
           (get_command_type(c) \in DOMAIN handlers /\ RouteCommand(c, d)) =>
               LET T == get_command_type(c)
               IN /\ handlers' = [handlers EXCEPT ![T].count = @ + 1]
                  /\ fallback_handler' = fallback_handler
                  /\ stats'.fallback_count = stats.fallback_count
                  /\ rResult'.handler_id = HandlerId(T)
                  /\ rResult'.response = handlers[T].response]_vars

\* A command was routed to its registered handler, a fallback being set and
\* never called
C10_Witness ==
    /\ rResult.op = "route_command"
    /\ rResult.handler_id = HandlerId("create_workflow")
    /\ "create_workflow" \in DOMAIN handlers
    /\ handlers["create_workflow"].count = 1
    /\ fallback_handler.some /\ fallback_handler.handler.count = 0
    /\ stats.fallback_count = 0

\* C11: with no handler registered for the command's tag and a fallback
\* handler set, route_command calls the fallback once and no handler of the
\* table, raises the fallback counter by exactly 1 and returns the handler id
\* "fallback".
C11_FallbackRouted ==
    [][\A c \in Commands : \A d \in Durations :
           (/\ get_command_type(c) \notin DOMAIN handlers
            /\ fallback_handler.some
            /\ RouteCommand(c, d)) =>
               /\ fallback_handler'.some
               /\ fallback_handler'.handler =
                      [fallback_handler.handler EXCEPT !.count = @ + 1]
               /\ handlers' = handlers
               /\ stats'.fallback_count = stats.fallback_count + 1
               /\ rResult'.handler_id = <<"fallback">>
               /\ rResult'.response =
                      [kind |-> "Error",
                       message |-> <<"Unknown command type: ", c>>]]_vars

\* A command without handler was routed to the fallback for the second time,
\* a handler of another tag being registered and never called
C11_Witness ==
    /\ rResult.op = "route_command"
    /\ rResult.handler_id = <<"fallback">>
    /\ fallback_handler.handler.count = 2
    /\ stats.fallback_count = 2
    /\ \E t \in DOMAIN handlers : handlers[t].count = 0

\* C12: with no handler registered for the command's tag and no fallback
\* handler set, route_command calls no handler, returns the Error response
\* "No handler found" with the handler id "none", and leaves the handler
\* table, the fallback slot and the fallback counter as they were.
C12_NoHandlerReported ==
    [][\A c \in Commands : \A d \in Durations :
           (/\ get_command_type(c) \notin DOMAIN handlers
            /\ ~fallback_handler.some
            /\ RouteCommand(c, d)) =>
               /\ rResult'.response = [kind |-> "Error", message |-> <<"No handler found">>]
               /\ rResult'.handler_id = <<"none">>
               /\ handlers' = handlers
               /\ fallback_handler' = fallback_handler
               /\ stats'.fallback_count = stats.fallback_count]_vars

\* A command was answered with "none", a handler of another tag being
\* registered
C12_Witness ==
    /\ rResult.op = "route_command"
    /\ rResult.handler_id = <<"none">>
    /\ ~fallback_handler.some
    /\ handlers # <<>>
    /\ \A t \in DOMAIN handlers : handlers[t].count = 0

\* C13: register_handler for a tag that has a handler fails and leaves that
\* handler in place, so commands of the tag go on to the first handler; each
\* tag has at most one handler, the one declaring that tag.
C13_NoSilentOverwrite ==
    /\ [][\A t \in HandlerTags : \A r \in Responses :
              (t \in DOMAIN handlers /\ RegisterHandler(MockWorkflowHandler(t, r))) =>
                  /\ rResult' = [op |-> "register_handler", ok |-> FALSE,
                                 command_type |-> t,
                                 error |-> "Handler already registered"]
                  /\ handlers' = handlers
                  /\ Resolve(handlers', fallback_handler', t) = "specific"]_vars
    /\ [](\A t \in DOMAIN handlers : handlers[t].command_type = t)

\* A second registration for a tag was refused, the first handler having
\* answered a command before and still in the table
C13_Witness ==
    /\ rResult.op = "register_handler" /\ ~rResult.ok
    /\ rResult.command_type \in DOMAIN handlers
    /\ handlers[rResult.command_type].count = 1

\* C14: remove_handler(T) with T registered succeeds and removes the handler:
\* commands of tag T then go to the fallback, or to "none" without fallback,
\* and register_handler for T succeeds again; with T not registered it fails
\* with a not-found error and changes nothing.
C14_RemoveHandler ==
    /\ [][\A t \in HandlerTags :
              RemoveHandler(t) =>
                  IF t \in DOMAIN handlers
                  THEN /\ rResult' = [op |-> "remove_handler", ok |-> TRUE,
                                      command_type |-> t]
                       /\ DOMAIN handlers' = DOMAIN handlers \ {t}
                       /\ \A u \in DOMAIN handlers' : handlers'[u] = handlers[u]
                       /\ Resolve(handlers', fallback_handler', t) =
                              (IF fallback_handler.some THEN "fallback" ELSE "none")
                       /\ UNCHANGED <<fallback_handler, stats, routing_times>>
                  ELSE /\ rResult' = [op |-> "remove_handler", ok |-> FALSE,
                                      command_type |-> t,
                                      error |-> "Handler not found"]
                       /\ UNCHANGED <<handlers, fallback_handler, stats, routing_times>>]_vars
    /\ [][\A t \in HandlerTags : \A r \in Responses :
              (/\ rResult.op = "remove_handler" /\ rResult.ok
               /\ rResult.command_type = t
               /\ RegisterHandler(MockWorkflowHandler(t, r))) =>
                  /\ rResult'.ok
                  /\ handlers' = MapInsert(handlers, t, MockWorkflowHandler(t, r))]_vars
    /\ [][\A c \in Commands : \A d \in Durations :
              (/\ rResult.op = "remove_handler" /\ rResult.ok
               /\ rResult.command_type = get_command_type(c)
               /\ RouteCommand(c, d)) =>
                  rResult'.handler_id =
                      (IF fallback_handler.some THEN <<"fallback">> ELSE <<"none">>)]_vars

\* A command went to the fallback right after the handler of its tag, which
\* had answered a command, was removed
C14_Witness ==
    /\ rResult.op = "route_command"
    /\ rResult.handler_id = <<"fallback">>
    /\ rResult.command_type \in HandlerTags
    /\ rResult.command_type \notin DOMAIN handlers
    /\ rResult.command_type \in DOMAIN stats.by_command_type
    /\ stats.by_command_type[rResult.command_type] = 2
    /\ stats.fallback_count = 1

----------------------------------------------------------------------------
(* Properties of MockWorkflowEventStore: errors and numbering *)

\* C16: on a store whose live log is empty, validate_chain() and
\* create_snapshot() both fail with an error and change neither the live log
\* nor the snapshot store.
C16_EmptyLogRejected ==
    [][events = <<>> =>
           /\ ValidateChain =>
                  /\ sResult' = [op |-> "validate_chain", ok |-> FALSE,
                                 error |-> "No events to validate"]
                  /\ events' = events /\ snapshots' = snapshots
           /\ CreateSnapshot =>
                  /\ sResult' = [op |-> "create_snapshot", ok |-> FALSE,
                                 error |-> "No events to snapshot"]
                  /\ events' = events /\ snapshots' = snapshots]_vars

\* create_snapshot() has failed on a cleared log, the store holding a
\* snapshot taken before
C16_Witness ==
    /\ sResult.op = "create_snapshot" /\ ~sResult.ok
    /\ events = <<>>
    /\ snapshots # <<>>

\* C17: restore_from_snapshot(a) for an address a that is no key of the
\* snapshot store fails with a not-found error and leaves the live log and
\* the snapshot store as they were.
C17_MissingSnapshotRejected ==
    [][\A a \in SnapshotCids :
           (a \notin DOMAIN snapshots /\ RestoreFromSnapshot(a)) =>
               /\ sResult' = [op |-> "restore_from_snapshot", ok |-> FALSE,
                              cid |-> a, error |-> "Snapshot not found"]
               /\ events' = events
               /\ snapshots' = snapshots]_vars

\* A restore from an unknown address has failed on a store with two live
\* entries and a snapshot
C17_Witness ==
    /\ sResult.op = "restore_from_snapshot" /\ ~sResult.ok
    /\ sResult.cid \notin DOMAIN snapshots
    /\ Len(events) = 2
    /\ snapshots # <<>>

\* The bytes of "evt_" followed by the digit i
EventIdOf(i) == <<101, 118, 116, 95, 48 + i>>

\* C18: under append_event, create_snapshot and restore_from_snapshot the
\* entry at position i of the live log has sequence number i, counted from 0
\* without gap or duplicate, and append_event returns the event id evt_i for
\* the entry it puts at position i.
C18_SequenceNumbers ==
    /\ \A i \in DOMAIN events :
           events[i].sequence = i - 1 /\ events[i].event_id = EventIdOf(i - 1)
    /\ sResult.op = "append_event" =>
           /\ events # <<>>
           /\ sResult.event_id = EventIdOf(Len(events) - 1)
           /\ sResult.cid = events[Len(events)].cid

\* An entry was appended at position 1 of a store that holds a snapshot of
\* its first entry
C18_Witness ==
    /\ sResult.op = "append_event"
    /\ sResult.event_id = EventIdOf(1)
    /\ \E a \in DOMAIN snapshots : Len(snapshots[a]) = 1

----------------------------------------------------------------------------
(* Properties of MockNatsClient *)

\* The payloads of the first n messages of a stream
PayloadsOf(messages, n) == [i \in 1..n |-> messages[i].payload]

\* The messages of every stream stand in the order of their publication: the
\* k-th publish of the client carries payload k
InPublishOrder ==
    \A n \in DOMAIN streams :
        \A i, j \in DOMAIN streams[n].messages :
            i < j => streams[n].messages[i].payload[1] < streams[n].messages[j].payload[1]

\* C19: on every stream and for every consumer of it, successive successful
\* consume_next calls return the payloads of the stream's messages in
\* publish order, each once, and None when all were delivered; a consumer
\* created after the publishes starts from the first message; a consumer's
\* cursor moves with its own calls only and never passes the message count.
C19_ConsumeInOrder ==
    /\ [](InPublishOrder /\
          \A n \in DOMAIN streams : \A c \in DOMAIN streams[n].consumers :
              /\ Len(streams[n].consumers[c].delivered) <= Len(streams[n].messages)
              /\ \A i \in DOMAIN streams[n].consumers[c].delivered :
                     streams[n].consumers[c].delivered[i] = <<"evt_", i - 1>>)
    /\ [][\A n \in DOMAIN streams : \A c \in DOMAIN streams[n].consumers :
              (connected /\ ConsumeNext(n, c)) =>
                  LET k == Len(streams[n].consumers[c].delivered)
                      delivered == streams'[n].consumers[c].delivered
                  IN /\ nResult'.ok
                     /\ IF k < Len(streams[n].messages)
                        THEN /\ nResult'.value.some
                             /\ nResult'.value.payload = streams[n].messages[k + 1].payload
                             /\ Len(delivered) = k + 1
                             /\ PayloadsOf(streams[n].messages, k + 1) =
                                    Append(PayloadsOf(streams[n].messages, k),
                                           nResult'.value.payload)
                        ELSE /\ ~nResult'.value.some
                             /\ Len(delivered) = k
                     /\ streams'[n].messages = streams[n].messages
                     /\ \A m \in DOMAIN streams : \A d \in DOMAIN streams[m].consumers :
                            <<m, d>> # <<n, c>> =>
                                streams'[m].consumers[d] = streams[m].consumers[d]]_vars
    /\ [][\A n \in DOMAIN streams : \A c \in ConsumerNames :
              (nResult'.op = "create_consumer" /\ nResult'.ok /\ CreateConsumer(n, c)) =>
                  streams'[n].consumers[c].delivered = <<>>]_vars

\* A consumer has been told None after it received both messages of the
\* stream, another consumer of the stream having received one
C19_Witness ==
    /\ nResult.op = "consume_next" /\ nResult.ok
    /\ ~nResult.value.some
    /\ nResult.stream_name \in DOMAIN streams
    /\ LET stream == streams[nResult.stream_name]
       IN /\ Len(stream.messages) = 2
          /\ DOMAIN stream.consumers = ConsumerNames
          /\ Len(stream.consumers[nResult.consumer_name].delivered) = 2
          /\ \E d \in DOMAIN stream.consumers : Len(stream.consumers[d].delivered) = 1

\* C20: whatever calls are made in between (create_stream, delete_stream,
\* publishes on other subjects), the sequence numbers given to the messages
\* published on one subject rise strictly in the order of their publication.
C20_SequencePerSubject ==
    \A i, j \in DOMAIN published_messages :
        (i < j /\ published_messages[i].subject = published_messages[j].subject) =>
            published_messages[i].headers.sequence < published_messages[j].headers.sequence

----------------------------------------------------------------------------
(* Further properties of WorkflowGraph *)

\* C21: on a graph created by WorkflowGraph::new and grown by successful
\* add_step calls only, each step depending on steps added earlier, validate()
\* returns Ok; the empty graph validates.
C21_BuiltGraphValidates ==
    gResult.op = "validate" =>
        /\ \A s \in DOMAIN steps : \A d \in Range(steps[s].dependencies) : d < s
        /\ gResult.kind = "Ok"

\* validate() has returned Ok on a graph of two added steps, the second
\* depending on the first
C21_Witness ==
    /\ gResult.op = "validate" /\ gResult.kind = "Ok"
    /\ \E a, b \in DOMAIN steps : IsPair(steps, a, b)

\* C22: after every successful add_step, start or complete the stored
\* context graph is the projection of the current workflow; in every state
\* statistics().step_nodes is the number of steps of the step map, and
\* dependency_edges is positive as soon as some step has a dependency.
C22_ProjectionFresh ==
    /\ (gResult.op \in {"add_step", "start", "complete"} /\ gResult.kind = "Ok") =>
           context_graph = from_workflow(steps)
    /\ statistics(context_graph).step_nodes = Cardinality(DOMAIN steps)
    /\ (\E s \in DOMAIN steps : steps[s].dependencies # <<>>) =>
           statistics(context_graph).dependency_edges > 0

\* add_step has succeeded a second time, with a dependency, and the
\* statistics count two step nodes and a dependency edge
C22_Witness ==
    /\ gResult.op = "add_step" /\ gResult.kind = "Ok"
    /\ \E a, b \in DOMAIN steps : IsPair(steps, a, b)
    /\ statistics(context_graph) = [step_nodes |-> 2, dependency_edges |-> 1]

----------------------------------------------------------------------------
(* Further properties of WorkflowCommandRouter *)

\* C23: every route_command call, resolved by a handler, by the fallback or
\* by nothing, records one latency sample and raises total_routed by one, and
\* no other call touches either; total_routed is the number of recorded
\* samples, and fallback_count never exceeds it.
C23_EveryRouteRecorded ==
    /\ [](/\ stats.total_routed = Len(routing_times)
          /\ stats.fallback_count <= stats.total_routed)
    /\ [][IF rResult'.op = "route_command"
          THEN /\ stats'.total_routed = stats.total_routed + 1
               /\ Len(routing_times') = Len(routing_times) + 1
               /\ SubSeq(routing_times', 1, Len(routing_times)) = routing_times
          ELSE /\ stats'.total_routed = stats.total_routed
               /\ routing_times' = routing_times]_vars

\* A handler has taken one command, a second command has found no handler
\* and no fallback, and two samples are recorded
C23_Witness ==
    /\ rResult.op = "route_command" /\ rResult.handler_id = <<"none">>
    /\ \E t \in DOMAIN handlers : handlers[t].count = 1
    /\ stats.total_routed = 2 /\ Len(routing_times) = 2

----------------------------------------------------------------------------
(* Further properties of MockNatsClient *)

\* Stream n has a pattern that takes the subject
Takes(n, subject) ==
    \E i \in DOMAIN streams[n].subjects : subject_matches(streams[n].subjects[i], subject)

\* C24: connect() succeeds exactly when the client is disconnected and fails
\* with "Already connected" otherwise; disconnect() leaves the client
\* disconnected; neither touches the streams, their messages, their
\* consumers or the published messages; a connected client publishes with
\* success on every subject an existing stream takes, after a reconnection
\* as before it.
C24_ConnectionStateMachine ==
    [][/\ nResult'.op = "connect" =>
              /\ connected'
              /\ nResult'.ok = ~connected
              /\ connected => nResult' = NatsErr("connect", "Already connected")
       /\ nResult'.op = "disconnect" => ~connected'
       /\ nResult'.op \in {"connect", "disconnect"} =>
              UNCHANGED <<streams, streamsIter, published_messages>>
       /\ nResult'.op \notin {"connect", "disconnect"} => UNCHANGED connected
       /\ \A subject \in PublishSubjects :
              (/\ connected
               /\ \E n \in DOMAIN streams : Takes(n, subject)
               /\ PublishWorkflowEvent(subject, NextPublished.event_id,
                                       NextPublished.payload)) =>
                  nResult'.ok /\ nResult'.subject = subject]_vars

\* connect() has succeeded on a client that holds a stream with a message
\* and a consumer that received it: the stream outlived a disconnect
C24_Witness ==
    /\ nResult = [op |-> "connect", ok |-> TRUE]
    /\ connected
    /\ \E n \in DOMAIN streams :
           /\ streams[n].messages # <<>>
           /\ \E c \in DOMAIN streams[n].consumers :
                  streams[n].consumers[c].delivered # <<>>

\* A create_stream or create_consumer step under a name already taken fails
\* with the "already exists" message of the call and leaves every stream as
\* it was
DuplicateRejected ==
    /\ \A name \in DOMAIN streams : \A l \in SubjectLists :
           CreateStream(name, l) =>
               /\ nResult' = NatsErr("create_stream", "Stream already exists")
               /\ streams' = streams
    /\ \A n \in DOMAIN streams : \A c \in DOMAIN streams[n].consumers :
           CreateConsumer(n, c) =>
               /\ nResult' = NatsErr("create_consumer", "Consumer already exists")
               /\ streams' = streams

\* C25 as stated: create_stream with a name that already exists fails with
\* "Stream already exists" and leaves the stream's subjects, messages and
\* consumers unchanged; create_consumer with a name the stream already has
\* fails with "Consumer already exists" and leaves the consumer's cursor
\* unchanged.
C25_DuplicateRejected == [][DuplicateRejected]_vars

\* C25, amended: on a connected client the duplicate create_stream and
\* create_consumer fail with their "already exists" messages; on a
\* disconnected client both fail with "Not connected"; in either case every
\* stream, with its subjects, messages and consumers, is left unchanged.
C25_DuplicateRejectedWhenConnected ==
    [][/\ connected => DuplicateRejected
       /\ ~connected =>
              /\ \A name \in DOMAIN streams : \A l \in SubjectLists :
                     CreateStream(name, l) =>
                         /\ nResult' = NatsErr("create_stream", "Not connected")
                         /\ streams' = streams
              /\ \A n \in DOMAIN streams : \A c \in DOMAIN streams[n].consumers :
                     CreateConsumer(n, c) =>
                         /\ nResult' = NatsErr("create_consumer", "Not connected")
                         /\ streams' = streams]_vars

\* create_stream has been refused under the name of a stream that holds a
\* message and a consumer that received it
C25_Witness ==
    /\ nResult = NatsErr("create_stream", "Stream already exists")
    /\ \E n \in DOMAIN streams :
           /\ streams[n].messages # <<>>
           /\ \E c \in DOMAIN streams[n].consumers :
                  streams[n].consumers[c].delivered # <<>>

\* C26: the acknowledgment ids of the successful publishes of a client are
\* pairwise different, across streams, stream deletions and reconnections;
\* a successful publish returns the id it recorded and raises
\* get_published_count() by one, and no other call changes the count.
C26_AckIdsUnique ==
    /\ [](\A i, j \in DOMAIN published_messages :
              i # j => published_messages[i].ack_id # published_messages[j].ack_id)
    /\ [][IF nResult'.op = "publish_workflow_event" /\ nResult'.ok
          THEN /\ get_published_count' = get_published_count + 1
               /\ SubSeq(published_messages', 1, get_published_count) =
                      published_messages
               /\ published_messages'[get_published_count'].ack_id = nResult'.ack_id
          ELSE published_messages' = published_messages]_vars

\* Two publishes have succeeded, each the first message of its stream, and
\* the stream of the first one has been deleted in between
C26_Witness ==
    /\ nResult.op = "publish_workflow_event" /\ nResult.ok
    /\ get_published_count = 2
    /\ \A i \in DOMAIN published_messages : published_messages[i].headers.sequence = 1
    /\ \A n \in DOMAIN streams : Len(streams[n].messages) <= 1
    /\ Cardinality({n \in DOMAIN streams : streams[n].messages # <<>>}) = 1

\* The publish steps of the client: one on a subject no existing stream
\* takes fails with `message` for such a subject and records nothing; one
\* that succeeds appends its message to exactly one stream, which takes the
\* subject, and to the published messages.
PublishRecorded(message) ==
    \A subject \in PublishSubjects :
        PublishWorkflowEvent(subject, NextPublished.event_id, NextPublished.payload) =>
            /\ (\A n \in DOMAIN streams : ~Takes(n, subject)) =>
                   /\ nResult' = NatsErr("publish_workflow_event", message)
                   /\ published_messages' = published_messages
                   /\ streams' = streams
            /\ nResult'.ok =>
                   /\ DOMAIN streams' = DOMAIN streams
                   /\ \E n \in DOMAIN streams :
                          /\ Takes(n, subject)
                          /\ streams'[n].messages =
                                 Append(streams[n].messages,
                                        [subject |-> subject,
                                         payload |-> NextPublished.payload,
                                         sequence |-> Len(streams[n].messages) + 1])
                          /\ \A m \in DOMAIN streams \ {n} : streams'[m] = streams[m]
                   /\ get_published_count' = get_published_count + 1

\* C27 as stated: publish_workflow_event on a subject that no existing
\* stream's patterns match fails with "No stream for subject" and records
\* nothing, also once the only stream that matched is deleted; a successful
\* publish appends the message to exactly one stream.
C27_NoStreamForSubject == [][PublishRecorded("No stream for subject")]_vars

\* C27, amended: as stated on a connected client; on a disconnected client
\* every publish fails with "Not connected" and records nothing.
C27_NoStreamForSubjectWhenConnected ==
    [][/\ connected => PublishRecorded("No stream for subject")
       /\ ~connected =>
              \A subject \in PublishSubjects :
                  PublishWorkflowEvent(subject, NextPublished.event_id,
                                       NextPublished.payload) =>
                      /\ nResult' = NatsErr("publish_workflow_event", "Not connected")
                      /\ published_messages' = published_messages
                      /\ streams' = streams]_vars

\* A publish has failed for want of a stream: messages were published before,
\* the streams that took their subjects are deleted, another stream is left
C27_Witness ==
    /\ nResult = NatsErr("publish_workflow_event", "No stream for subject")
    /\ published_messages # <<>>
    /\ DOMAIN streams # {}
    /\ \A i \in DOMAIN published_messages : \A n \in DOMAIN streams :
           ~Takes(n, published_messages[i].subject)

----------------------------------------------------------------------------
(* Further properties of MockWorkflowEventStore *)

\* Log a is the beginning of log b, entry for entry
IsPrefix(a, b) == Len(a) <= Len(b) /\ SubSeq(b, 1, Len(a)) = a

\* C28 as stated: across append_event, validate_chain, replay_events,
\* create_snapshot and restore_from_snapshot, the live log before each
\* operation is a prefix of the live log after it: no entry is modified or
\* removed.
C28_AppendOnly == [][IsPrefix(events, events')]_vars

\* C28, amended: across append_event, validate_chain, replay_events,
\* create_snapshot and a failed restore_from_snapshot the live log before the
\* operation is a prefix of the live log after it; a successful
\* restore_from_snapshot replaces the live log with the log stored under the
\* address.
C28_AppendOnlyButRestore ==
    [][IF sResult'.op = "restore_from_snapshot" /\ sResult'.ok
       THEN /\ sResult'.cid \in DOMAIN snapshots
            /\ events' = snapshots[sResult'.cid]
       ELSE IsPrefix(events, events')]_vars

\* A third entry has been appended to a log of which a snapshot holds the
\* first entry or the first two
C28_Witness ==
    /\ sResult.op = "append_event"
    /\ Len(events) = 3
    /\ \E c \in DOMAIN snapshots :
           Len(snapshots[c]) < 3 /\ IsPrefix(snapshots[c], events)

\* The log is a chain: its first entry has no previous address, every other
\* entry holds the address of the entry before it
IsChain(log) ==
    \A i \in DOMAIN log :
        log[i].previous_cid = IF i = 1 THEN None ELSE Some(log[i - 1].cid)

\* C29: in every state reached by append_event, create_snapshot and
\* restore_from_snapshot in any order the live log is a chain, and
\* validate_chain() succeeds on it whenever it is not empty, also after an
\* append to a log restored from an older snapshot.
C29_LiveLogIsChain ==
    /\ IsChain(events)
    /\ \A c \in DOMAIN snapshots : IsChain(snapshots[c])
    /\ (sResult.op = "validate_chain" /\ events # <<>>) =>
           sResult.ok /\ sResult.length = Len(events)

\* validate_chain() has succeeded on a log of two entries while a snapshot
\* holds another log of two entries with the same first entry: the log was
\* restored from the older snapshot of that entry and appended to
C29_Witness ==
    /\ sResult.op = "validate_chain" /\ sResult.ok
    /\ Len(events) = 2
    /\ \E c \in DOMAIN snapshots :
           /\ Len(snapshots[c]) = 2
           /\ snapshots[c][1] = events[1]
           /\ snapshots[c][2] # events[2]

\* C30: a snapshot stored under an address is never altered by a later
\* operation, create_snapshot sets under the address it returns the log that
\* is live at the call, and restore_from_snapshot(a) sets the live log to the
\* log stored under a: so restore_from_snapshot(a) brings back exactly the
\* log that was live when create_snapshot returned a, whatever appends,
\* snapshots and restores came in between.
C30_RestoreReturnsSnapshotted ==
    [][/\ \A a \in DOMAIN snapshots :
              a \in DOMAIN snapshots' /\ snapshots'[a] = snapshots[a]
       /\ (sResult'.op = "create_snapshot" /\ sResult'.ok) =>
              /\ sResult'.cid \in DOMAIN snapshots'
              /\ snapshots'[sResult'.cid] = events
       /\ (sResult'.op = "restore_from_snapshot" /\ sResult'.ok) =>
              events' = snapshots[sResult'.cid]]_vars

----------------------------------------------------------------------------
(* Properties of the addresses of MockWorkflowEventStore *)

\* The entries of the live log and of every stored snapshot
AllEntries ==
    Range(events) \cup UNION {Range(snapshots[c]) : c \in DOMAIN snapshots}

\* C31: the address append_event gives an entry is a function of the event
\* and the previous address alone: any two entries, appended at whatever
\* sequence number, log length and state of the snapshot store, that hold
\* equal events and equal previous addresses hold equal addresses.
C31_AddressFromPayloadAndPrevious ==
    \A x, y \in AllEntries :
        (x.event = y.event /\ x.previous_cid = y.previous_cid) => x.cid = y.cid

\* The live log holds the same event twice, at different sequence numbers,
\* after the same previous address
C31_Witness ==
    \E i, j \in DOMAIN events :
        /\ i < j
        /\ events[i].sequence # events[j].sequence
        /\ events[i].event = events[j].event
        /\ events[i].previous_cid = events[j].previous_cid
        /\ events[i].previous_cid.some

\* The log with the payload, the sequence number and the event id of the
\* entry at index k (1-based) replaced
Rewritten(log, k, event, sequence) ==
    [log EXCEPT ![k] = [event_id |-> Bytes("evt_") \o Dec(sequence),
                        event |-> event,
                        cid |-> log[k].cid,
                        previous_cid |-> log[k].previous_cid,
                        sequence |-> sequence]]

\* C32: validate_chain() is structural: its outcome is that of the linkage
\* test on the cid and previous_cid fields, so replacing the payload, the
\* sequence number and the event id of any entry leaves the outcome as it
\* is, and the outcome a call returns is the one of the log as stored.
C32_ValidationStructural ==
    /\ \A k \in DOMAIN events :
           \A event \in Payloads \cup CollidingPayloads : \A sequence \in 0..MaxLog :
               validate_chain(Rewritten(events, k, event, sequence))
                   = validate_chain(events)
    /\ sResult.op = "validate_chain" =>
           sResult = [op |-> "validate_chain"] @@ validate_chain(events)

\* validate_chain() has returned Ok on a log of two or more entries one of
\* which holds an address that is not the one of its content
C32_Witness ==
    /\ sResult.op = "validate_chain"
    /\ sResult.ok
    /\ Len(events) >= 2
    /\ \E k \in DOMAIN events :
           events[k].cid # CidNew(DebugEvent(events[k].event)
                                     \o DebugOptCid(events[k].previous_cid))

\* C33: on a log of two or more appended events the first and the last
\* address validate_chain() returns differ.
C33_ChainEndsDiffer ==
    (sResult.op = "validate_chain" /\ sResult.ok /\ sResult.length >= 2) =>
        sResult.start_cid # sResult.end_cid

----------------------------------------------------------------------------
(* Properties of the statistics and responses of WorkflowCommandRouter *)

\* C34: route_command raises a per-type count only when the command goes to
\* the handler registered for its tag, and then the count of that tag by one;
\* a call resolved by the fallback or by no handler leaves every per-type
\* count as it is.
C34_PerTypeCountOnlyWhenSpecific ==
    [][\A command \in Commands : \A elapsed \in Durations :
           RouteCommand(command, elapsed) =>
               LET command_type == get_command_type(command)
               IN IF command_type \in DOMAIN handlers
                  THEN stats'.by_command_type
                           = CountUp(stats.by_command_type, command_type)
                  ELSE stats'.by_command_type = stats.by_command_type]_vars

\* C35: route_command returns the response of the handler it invoked as the
\* handler made it: the response the registered handler was built with, the
\* fallback's "Unknown command type" error, or the "No handler found" error
\* when there is neither; and which of the three it is, and the handler id
\* returned, is a function of the command's tag, the tags of the handler
\* table and the fallback slot alone.
C35_ResponseIsTheHandlers ==
    [][\A command \in Commands : \A elapsed \in Durations :
           RouteCommand(command, elapsed) =>
               LET command_type == get_command_type(command)
               IN IF command_type \in DOMAIN handlers
                  THEN /\ rResult'.response = handlers[command_type].response
                       /\ rResult'.handler_id = HandlerId(command_type)
                  ELSE IF fallback_handler.some
                  THEN /\ rResult'.response =
                              [kind |-> "Error",
                               message |-> <<"Unknown command type: ", command>>]
                       /\ rResult'.handler_id = <<"fallback">>
                  ELSE /\ rResult'.response = NoHandlerResponse
                       /\ rResult'.handler_id = <<"none">>]_vars

\* An Unknown command carrying the tag of a registered handler has been
\* answered with that handler's Async response, on a router that has routed
\* before and holds a fallback
C35_Witness ==
    /\ rResult.op = "route_command"
    /\ rResult.command.variant = "Unknown"
    /\ rResult.handler_id = HandlerId("create_workflow")
    /\ rResult.response = [kind |-> "Async", correlation_id |-> "corr-1"]
    /\ fallback_handler.some
    /\ stats.total_routed >= 2

\* The sum of the counts of a per-type table
RECURSIVE SumCounts(_)
SumCounts(by_command_type) ==
    IF DOMAIN by_command_type = {} THEN 0
    ELSE LET t == CHOOSE t \in DOMAIN by_command_type : TRUE
         IN by_command_type[t]
                + SumCounts([u \in DOMAIN by_command_type \ {t} |-> by_command_type[u]])

\* C37: the per-type counts of by_command_type add up to total_routed in
\* every state a call leaves the router in, and register_handler,
\* remove_handler and set_fallback_handler leave every per-type count as it
\* is.
C37_PerTypeCountsSumToTotal ==
    [][/\ SumCounts(stats'.by_command_type) = stats'.total_routed
       /\ rResult'.op \in {"register_handler", "remove_handler", "set_fallback_handler"}
              => stats'.by_command_type = stats.by_command_type]_vars

\* remove_handler has removed the handler of a tag that has a count, on a
\* router that counted two tags over calls resolved by a handler, by the
\* fallback and by no handler
C37_Witness ==
    /\ rResult.op = "remove_handler"
    /\ rResult.ok
    /\ rResult.command_type \in DOMAIN stats.by_command_type
    /\ Cardinality(DOMAIN stats.by_command_type) >= 2
    /\ stats.fallback_count = 1
    /\ stats.total_routed = 3

----------------------------------------------------------------------------
(* Properties of subject matching and of the disconnected MockNatsClient *)

\* Token-wise matching of a subject against a pattern: "P.>" takes the
\* subjects made of the tokens of P and at least one more token, a pattern
\* with "*" the subjects of as many tokens that agree with it wherever it has
\* no "*", any other pattern the subject equal to it.
TokenMatches(subj, subject) ==
    LET parts == split(subj, ".")
        subject_parts == split(subject, ".")
    IN IF ends_with(subj, <<".", ">">>)
       THEN /\ Len(subject_parts) >= Len(parts)
            /\ \A i \in 1..(Len(parts) - 1) : parts[i] = subject_parts[i]
       ELSE IF contains(subj, "*")
       THEN /\ Len(parts) = Len(subject_parts)
            /\ \A i \in DOMAIN parts :
                   parts[i] = <<"*">> \/ parts[i] = subject_parts[i]
       ELSE subject = subj

\* C36: publish_workflow_event matches subjects token-wise: a connected
\* client's publish finds a stream exactly when some stream has a pattern
\* that takes the subject token by token.
C36_TokenWiseMatching ==
    [][\A subject \in PublishSubjects :
           (/\ connected
            /\ PublishWorkflowEvent(subject, NextPublished.event_id,
                                    NextPublished.payload)) =>
               (nResult'.ok <=>
                    \E n \in DOMAIN streams : \E i \in DOMAIN streams[n].subjects :
                        TokenMatches(streams[n].subjects[i], subject))]_vars

\* The calls of the client that need a connection
ConnectedCalls ==
    {"create_stream", "publish_workflow_event", "create_consumer", "consume_next",
     "delete_stream"}

\* C38: on a disconnected client create_stream, publish_workflow_event,
\* create_consumer, consume_next and delete_stream fail with "Not connected"
\* and leave the streams, their messages and consumer cursors, and the
\* published messages as they are.
C38_DisconnectedCallsFail ==
    [][(~connected /\ nResult'.op \in ConnectedCalls) =>
           /\ nResult' = NatsErr(nResult'.op, "Not connected")
           /\ UNCHANGED <<connected, streams, streamsIter, published_messages>>]_vars

\* delete_stream has failed on a disconnected client that holds a stream
\* with a message a consumer has taken
C38_Witness ==
    /\ ~connected
    /\ nResult = NatsErr("delete_stream", "Not connected")
    /\ published_messages # <<>>
    /\ \E n \in DOMAIN streams :
           /\ streams[n].messages # <<>>
           /\ \E c \in DOMAIN streams[n].consumers :
                  streams[n].consumers[c].delivered # <<>>

----------------------------------------------------------------------------
(* Properties of the reads of MockWorkflowEventStore *)

\* C39: replay_events and validate_chain are pure reads: a call of either
\* leaves the live log and the snapshot store as they are, and what it
\* returns is the value of the log as stored, whatever was called before:
\* the entries of the workflow in log order, and the outcome of the linkage
\* test.
C39_ReadsArePure ==
    [][/\ sResult'.op \in {"replay_events", "validate_chain"} =>
              UNCHANGED <<events, snapshots>>
       /\ sResult'.op = "replay_events" =>
              sResult'.replayed =
                  SelectSeq(events', LAMBDA e : e.event.workflow_id = sResult'.workflow_id)
       /\ sResult'.op = "validate_chain" =>
              /\ sResult'.ok = (events' # <<>>)
              /\ sResult'.ok => /\ sResult'.start_cid = events'[1].cid
                                /\ sResult'.end_cid = events'[Len(events')].cid
                                /\ sResult'.length = Len(events')]_vars

\* replay_events has returned some but not all entries of the live log while
\* a snapshot is stored
C39_Witness ==
    /\ sResult.op = "replay_events"
    /\ sResult.replayed # <<>>
    /\ Len(sResult.replayed) < Len(events)
    /\ snapshots # <<>>

============================================================================
